---- MODULE Spec2Model ----
(***************************************************************************)
(* Model of the RGBW controller firmware: the output channels              *)
(* (light.hh, output_manager.hh), the throttled change notification        *)
(* (throttled_value.hh) and its two users for the output state, the BLE    *)
(* colour characteristic (output_manager.hh) and the WebSocket handler     *)
(* (websocket_handler.hh), driven by the main loop of controller.cpp.      *)
(***************************************************************************)
EXTENDS Integers, Sequences, FiniteSets, TLC

(***************************************************************************)
(* Bounds of the model.                                                    *)
(***************************************************************************)
\* number of Output::Manager operations explored after begin()
MaxOps == 2

(***************************************************************************)
(* Constants of light.hh.                                                  *)
(***************************************************************************)
ON_VALUE == 255

OFF_VALUE == 0

MIN_BRIGHTNESS == OFF_VALUE + 1

MAX_BRIGHTNESS == ON_VALUE

\* Color indexes the four lights of Output::Manager: Red, Green, Blue, White
Red == 0

Green == 1

Blue == 2

White == 3

Colors == {Red, Green, Blue, White}

\* std::optional<uint8_t>: <<>> is std::nullopt, <<v>> holds v
Nullopt == <<>>

\* every light of Output::Manager is constructed with invert = false
Invert(c) == FALSE

\* Light::State as constructed: on = false, value = 0
DefaultState == [on |-> FALSE, value |-> OFF_VALUE]

LightState(on, value) == [on |-> on, value |-> value]

(***************************************************************************)
(* Light::perceptualBrightnessStep.  The function is float arithmetic      *)
(* (pow with gamma 2.2, a step of 0.05, lround, clamp to 1..255); the two  *)
(* tables hold its result for every uint8_t argument, entry v + 1 for      *)
(* currentValue = v.                                                       *)
(***************************************************************************)
StepUpTable ==
    << 1, 3, 5, 6, 7, 9, 10, 12, 13, 14, 15, 17, 18, 19, 20, 22, 23, 24, 25, 26, 28, 29, 30, 31,
       32, 34, 35, 36, 37, 38, 39, 41, 42, 43, 44, 45, 46, 47, 49, 50, 51, 52, 53, 54, 55, 57,
       58, 59, 60, 61, 62, 63, 65, 66, 67, 68, 69, 70, 71, 72, 73, 75, 76, 77, 78, 79, 80, 81,
       82, 84, 85, 86, 87, 88, 89, 90, 91, 92, 93, 95, 96, 97, 98, 99, 100, 101, 102, 103, 104,
       106, 107, 108, 109, 110, 111, 112, 113, 114, 115, 117, 118, 119, 120, 121, 122, 123, 124,
       125, 126, 127, 129, 130, 131, 132, 133, 134, 135, 136, 137, 138, 139, 140, 142, 143, 144,
       145, 146, 147, 148, 149, 150, 151, 152, 153, 155, 156, 157, 158, 159, 160, 161, 162, 163,
       164, 165, 166, 167, 169, 170, 171, 172, 173, 174, 175, 176, 177, 178, 179, 180, 181, 183,
       184, 185, 186, 187, 188, 189, 190, 191, 192, 193, 194, 195, 197, 198, 199, 200, 201, 202,
       203, 204, 205, 206, 207, 208, 209, 210, 212, 213, 214, 215, 216, 217, 218, 219, 220, 221,
       222, 223, 224, 225, 226, 228, 229, 230, 231, 232, 233, 234, 235, 236, 237, 238, 239, 240,
       241, 242, 244, 245, 246, 247, 248, 249, 250, 251, 252, 253, 254, 255, 255, 255, 255, 255,
       255, 255, 255, 255, 255, 255, 255, 255, 255, 255, 255, 255, 255, 255, 255, 255, 255, 255,
       255, 255, 255, 255, 255 >>

StepDownTable ==
    << 1, 1, 1, 1, 2, 2, 3, 4, 4, 5, 6, 7, 7, 8, 9, 10, 10, 11, 12, 13, 14, 14, 15, 16, 17, 18,
       19, 19, 20, 21, 22, 23, 24, 24, 25, 26, 27, 28, 29, 30, 30, 31, 32, 33, 34, 35, 36, 37,
       37, 38, 39, 40, 41, 42, 43, 44, 44, 45, 46, 47, 48, 49, 50, 51, 52, 52, 53, 54, 55, 56,
       57, 58, 59, 60, 60, 61, 62, 63, 64, 65, 66, 67, 68, 69, 69, 70, 71, 72, 73, 74, 75, 76,
       77, 78, 78, 79, 80, 81, 82, 83, 84, 85, 86, 87, 88, 88, 89, 90, 91, 92, 93, 94, 95, 96,
       97, 98, 99, 99, 100, 101, 102, 103, 104, 105, 106, 107, 108, 109, 110, 110, 111, 112, 113,
       114, 115, 116, 117, 118, 119, 120, 121, 121, 122, 123, 124, 125, 126, 127, 128, 129, 130,
       131, 132, 133, 133, 134, 135, 136, 137, 138, 139, 140, 141, 142, 143, 144, 145, 146, 146,
       147, 148, 149, 150, 151, 152, 153, 154, 155, 156, 157, 158, 159, 159, 160, 161, 162, 163,
       164, 165, 166, 167, 168, 169, 170, 171, 172, 173, 173, 174, 175, 176, 177, 178, 179, 180,
       181, 182, 183, 184, 185, 186, 187, 187, 188, 189, 190, 191, 192, 193, 194, 195, 196, 197,
       198, 199, 200, 201, 202, 202, 203, 204, 205, 206, 207, 208, 209, 210, 211, 212, 213, 214,
       215, 216, 217, 217, 218, 219, 220, 221, 222, 223, 224, 225, 226, 227, 228 >>

perceptualBrightnessStep(currentValue, increase) ==
    IF increase THEN StepUpTable[currentValue + 1] ELSE StepDownTable[currentValue + 1]

(***************************************************************************)
(* State.                                                                  *)
(*   lights   the four Light objects of Output::Manager: on and value are  *)
(*            Light::state, lastWrittenValue the cached duty, ledc the     *)
(*            duty the PWM channel of the light holds (Nullopt before the  *)
(*            first ledcWrite)                                             *)
(*   prefs    the stored Light::State of every channel (Preferences)       *)
(*   started  setup() has run (Output::Manager::begin)                     *)
(*   opCount  operations on Output::Manager so far                         *)
(*   lastOp   the last operation on Output::Manager, the channels it       *)
(*            addressed and the Output::State it found                     *)
(***************************************************************************)
VARIABLES lights, prefs, started, opCount, lastOp

(***************************************************************************)
(* State of the change notification of the output state.                   *)
(*   clock      millis()                                                   *)
(*   loopNow    the now of the running loop() iteration                    *)
(*   mainPc     where the main loop stands in loop()                       *)
(*   candidate  the Output::State the main loop fetched for the gate at    *)
(*              hand                                                       *)
(*   gates      the ThrottledValue<Output::State> objects: "ble" is        *)
(*              Output::Manager::colorNotificationThrottle, "ws" is        *)
(*              WebSocket::Handler::outputThrottle                         *)
(*   mutex      who holds ThrottledValue::mutex of each gate               *)
(*   bleChar    bleOutputColorCharacteristic is not null                   *)
(*   blePc, bleArg    the BLE host task inside OutputColorCallback::onWrite*)
(*   wsPc, wsArg, wsClient   the async TCP task inside a WebSocket event   *)
(*   connected  the WebSocket clients of ws, view the Output::State each   *)
(*              client received, or sent itself, last (Nullopt: none yet)  *)
(*   bleView    the Output::State the BLE subscriber was notified of last  *)
(*   lastCheck  the last shouldSend call of the main loop, and what became *)
(*              of the broadcast it allowed                                *)
(*   skipped    per gate, the last shouldSend call of the main loop found  *)
(*              the mutex taken                                            *)
(*   retry      per gate, the candidate of a broadcast that failed after   *)
(*              shouldSend allowed it, while the gate is as it was         *)
(*   changes, connects   inputs taken so far                               *)
(***************************************************************************)
VARIABLES clock, loopNow, mainPc, candidate, gates, mutex, bleChar,
          blePc, bleArg, wsPc, wsArg, wsClient, connected, view, bleView,
          lastCheck, skipped, retry, changes, connects

(***************************************************************************)
(* State of WebSocket::Handler over every kind of state it publishes.      *)
(*   config            the firmware: which sources the Handler was given   *)
(*   kindState         the value each source returns                       *)
(*   kindGates         the ThrottledValue of each kind                     *)
(*   lastSentHeapInfo  Handler::lastSentHeapInfo                           *)
(*   event             history: the messages of the last WS_EVT_CONNECT    *)
(*                     and the gates before it                             *)
(***************************************************************************)
VARIABLES config, kindState, kindGates, lastSentHeapInfo, event

(***************************************************************************)
(* State of Light::handle, per channel.                                    *)
(*   lastPersistedState  Light::lastPersistedState                         *)
(*   lastPersistTime     Light::lastPersistTime                            *)
(*   changedAt    history: millis() as a mutator last changed the state    *)
(*   writtenAt    history: the now of the last write to storage            *)
(*   handled      history: what the last Light::handle call found and did  *)
(***************************************************************************)
VARIABLES lastPersistedState, lastPersistTime, changedAt, writtenAt, handled

persistVars == <<lastPersistedState, lastPersistTime, changedAt, writtenAt, handled>>

(***************************************************************************)
(* State of the Alexa integration.                                         *)
(*   settings, alexaPrefs   AlexaIntegration::settings and their stored    *)
(*                          copy ("alexa-config")                          *)
(*   heap       every AsyncEspAlexaDevice created so far, by address; a    *)
(*              deleted one keeps its place with live = FALSE              *)
(*   registry   AsyncEspAlexaManager::devices, a vector of addresses       *)
(*   slots      the four pointers of the union AlexaIntegration::devices   *)
(*   alexaOutputState, lastOutputStateUpdate   AlexaIntegration's fields   *)
(*   webServer  beginAlexaAndWebServer has started the HTTP server         *)
(*   mac24      the low 24 bits of this device's MAC address               *)
(*   request    history: the last request to AsyncEspAlexaWebHandler       *)
(*   begins, applies, requests   inputs taken so far                       *)
(***************************************************************************)
VARIABLES settings, alexaPrefs, heap, registry, slots, alexaOutputState,
          lastOutputStateUpdate, webServer, mac24, request, begins, applies, requests

\* the tasks that use the integration step by step: where the task of
\* applySettings, loop() and the HTTP handler are, what each has read, the
\* mode the pointers of devices were made for, and what went wrong
VARIABLES applyPc, loopPc, loopMode, loopPtrs, httpPc, httpPtr, slotsMode, fault, halted

raceVars == <<applyPc, loopPc, loopMode, loopPtrs, httpPc, httpPtr, slotsMode, fault, halted>>

alexaVars == <<settings, alexaPrefs, heap, registry, slots, alexaOutputState,
               lastOutputStateUpdate, webServer, mac24, request, begins, applies, requests,
               raceVars>>

(***************************************************************************)
(* State behind the BLE characteristics a client writes, besides the       *)
(* lights and the Alexa settings.                                          *)
(*   blobs      calibration: the stored factor ("calibration"), as bytes   *)
(*              wifi: the stored connection details and the network        *)
(*                    WiFi.begin was last given                            *)
(*              credentials: the HTTP credentials in the middleware and    *)
(*                    their stored copy                                    *)
(*              controllerAddress: RemoteHandler::controllerAddress and    *)
(*                    its stored copy                                      *)
(*              devices: ControllerHandler::deviceData and its stored copy *)
(*   lastWrite  history: the last write to a characteristic                *)
(***************************************************************************)
VARIABLES blobs, lastWrite

blobVars == <<blobs, lastWrite>>

\* history of AlexaIntegration::handle and of the OutputState it polls:
\*   polled           the last call that compared: its now, the
\*                    lastOutputStateUpdate it found, whether the snapshot
\*                    differed, OutputState at the call, and the snapshot
\*                    and the devices after it
\*   outputChangedAt  millis() as OutputState last changed
VARIABLES polled, outputChangedAt

pollVars == <<polled, outputChangedAt>>

(***************************************************************************)
(* The network scan of WiFiManager.                                        *)
(*   wifiScanQueue  the events in WiFiManager::wifiScanQueue, a queue of   *)
(*                  one                                                    *)
(*   scanPc         where the task wifiScanNotifier is: blocked in         *)
(*                  xQueueReceive, scanning, or between setScanStatus      *)
(*                  (COMPLETED) and setScanResult                          *)
(*   scanStatus, scanResult   WiFiManager's fields; the result is the      *)
(*                  number of networks                                     *)
(*   scanLocal      the variable result of wifiScanNotifier, <<>> outside  *)
(*                  its scope                                              *)
(*   triggers       triggerScan calls so far                               *)
(*   triggered      history: the last triggerScan call                     *)
(*   watcher        a client that reads the scan status and then the scan  *)
(*                  result: where it is, the result of the scan whose      *)
(*                  status it saw, the result it read, and whether another *)
(*                  scan began in between                                  *)
(***************************************************************************)
VARIABLES wifiScanQueue, scanPc, scanStatus, scanResult, scanLocal, triggers, triggered, watcher

scanVars ==
    <<wifiScanQueue, scanPc, scanStatus, scanResult, scanLocal, triggers, triggered, watcher>>

(***************************************************************************)
(* The mutexes of DeviceManager, Sensor and EspNow::ControllerHandler.     *)
(*   holder       for each mutex the context that holds it, or "none"      *)
(*   running      for each context the steps left of the call it is in     *)
(*   deviceName   DeviceManager::deviceName, "" when not loaded            *)
(*   storedName   the key deviceName of the preferences                    *)
(*   factor       the calibration factor in the preferences                *)
(*   deviceData   ControllerHandler::deviceData, as the number of devices  *)
(*   accessed     history: the last read or write of a field and the       *)
(*                mutexes its context held                                 *)
(***************************************************************************)
VARIABLES holder, running, deviceName, storedName, factor, deviceData, accessed

lockVars == <<holder, running, deviceName, storedName, factor, deviceData, accessed>>

(***************************************************************************)
(* A composite operation of Output::Manager running in one task while      *)
(* getState runs in another.                                               *)
(*   writer      the operation in progress: the calls on the lights still  *)
(*               to make, the OutputState before its first call and the    *)
(*               one the operation yields when nothing interleaves         *)
(*   reader      getState in progress: the lights copied so far            *)
(*   composites  composite operations started so far                       *)
(*   observed    history: what the last getState returned, the operations  *)
(*               that ran while it was copying and the number begun by     *)
(*               its return                                                *)
(***************************************************************************)
VARIABLES writer, reader, composites, observed

stepVars == <<writer, reader, composites, observed>>

(***************************************************************************)
(* ESP-NOW packets.                                                        *)
(*   packet   history: the last packet onDataReceived got, the directory   *)
(*            and the OutputState it found, and the packets so far         *)
(***************************************************************************)
VARIABLES packet

packetVars == <<packet>>

(***************************************************************************)
(* A call of hsvToRgbw.                                                    *)
(*   hsvArgs     the arguments hue, saturation, value                      *)
(*   rgbwResult  what the call returned, <<>> before it                    *)
(*   hsvBack     what rgbwToHsv returned for that result, <<>> before it   *)
(***************************************************************************)
VARIABLES hsvArgs, rgbwResult, hsvBack

colorVars == <<hsvArgs, rgbwResult, hsvBack>>

(***************************************************************************)
(* Firmware updates over HTTP (OTA::Handler and its AsyncOtaWebHandler).   *)
(*   ota          status, totalBytesExpected and totalBytesReceived of the *)
(*                handler, uploadCompleted and updateError of the web      *)
(*                handler, and of the Update object whether an update is   *)
(*                running and the bytes written to it                      *)
(*   otaRequests  the requests to /update: how far each got, its method    *)
(*                and credentials, its attributes, whether it has a        *)
(*                disconnect callback and its response                     *)
(*   otaSeen      history: the last callback, its request and whether it   *)
(*                changed ota                                              *)
(***************************************************************************)
VARIABLES ota, otaRequests, otaSeen

otaVars == <<ota, otaRequests, otaSeen>>

\* the parts that stand apart from the lights and the Alexa integration
extraVars == <<scanVars, lockVars, stepVars, packetVars, colorVars, otaVars>>

\* the state of the parts added to the firmware's core
moreVars == <<persistVars, alexaVars, blobVars, pollVars, extraVars>>

snapVars == <<config, kindState, kindGates, lastSentHeapInfo, event, moreVars>>

lightVars == <<lights, prefs, started, opCount, lastOp>>

mainVars == <<loopNow, mainPc, candidate>>

bleTaskVars == <<blePc, bleArg>>

wsTaskVars == <<wsPc, wsArg, wsClient>>

observerVars == <<connected, view, bleView>>

historyVars == <<lastCheck, skipped, retry>>

\* what the handler over every kind leaves alone
notifyVars == <<mainVars, gates, mutex, bleChar, bleTaskVars, wsTaskVars, view, bleView,
                historyVars, moreVars>>

gateVars == <<clock, mainVars, gates, mutex, bleChar, bleTaskVars, wsTaskVars,
              observerVars, historyVars, changes, connects, snapVars>>

vars == <<lightVars, gateVars>>

\* the notification and the bookkeeping of Output::Manager's operations,
\* which the other parts leave alone
quietVars == <<started, opCount, lastOp, mainVars, mutex, bleChar, bleTaskVars,
               wsTaskVars, observerVars, historyVars, connects, config, kindState, kindGates,
               lastSentHeapInfo, event>>

idleVars == <<quietVars, gates, blobVars, pollVars, extraVars>>

(***************************************************************************)
(* Light (light.hh).  Every operator maps a Light to the Light after the   *)
(* call.                                                                   *)
(***************************************************************************)
\* Light as constructed
NewLight ==
    [on |-> FALSE, value |-> OFF_VALUE, lastWrittenValue |-> Nullopt, ledc |-> Nullopt]

\* Light::getState
Light_getState(l) == [on |-> l.on, value |-> l.value]

Light_isOn(l) == l.on

Light_isOff(l) == ~l.on

Light_isVisible(l) == l.on /\ l.value > 0

\* Light::update: ledcWrite only when the duty differs from the cached one
Light_update(l, c) ==
    LET duty == IF l.on THEN l.value ELSE OFF_VALUE
        outputValue == IF Invert(c) THEN MAX_BRIGHTNESS - duty ELSE duty
    IN  IF l.lastWrittenValue # <<outputValue>>
        THEN [l EXCEPT !.ledc = <<outputValue>>, !.lastWrittenValue = <<outputValue>>]
        ELSE l

\* Light::restore, with p the stored state (getBool / getUChar)
Light_restore(l, c, p) ==
    Light_update([l EXCEPT !.on = p.on, !.value = p.value], c)

\* Light::toggle
Light_toggle(l, c) ==
    LET flipped == [l EXCEPT !.on = ~l.on]
        lit == IF flipped.on /\ flipped.value = OFF_VALUE
               THEN [flipped EXCEPT !.value = MAX_BRIGHTNESS]
               ELSE flipped
    IN  Light_update(lit, c)

\* Light::setValue
Light_setValue(l, c, value) == Light_update([l EXCEPT !.value = value], c)

\* a setOn that forgets update()
Light_setOn_noUpdate(l, c, stateFlag) == [l EXCEPT !.on = stateFlag]

\* Light::setOn
Light_setOn(l, c, stateFlag) == Light_update([l EXCEPT !.on = stateFlag], c)

\* an increaseBrightness that already stops one below the maximum
Light_increaseBrightness_stopsEarly(l, c) ==
    IF l.value >= MAX_BRIGHTNESS - 1
    THEN l
    ELSE Light_update([l EXCEPT !.value = perceptualBrightnessStep(l.value, TRUE)], c)

\* Light::increaseBrightness
Light_increaseBrightness(l, c) ==
    IF l.value = MAX_BRIGHTNESS
    THEN l
    ELSE Light_update([l EXCEPT !.value = perceptualBrightnessStep(l.value, TRUE)], c)

\* a decreaseBrightness that steps down whatever the channel holds
Light_decreaseBrightness_unguarded(l, c) ==
    Light_update([l EXCEPT !.value = perceptualBrightnessStep(l.value, FALSE)], c)

\* Light::decreaseBrightness
Light_decreaseBrightness(l, c) ==
    IF Light_isOff(l) \/ l.value = MIN_BRIGHTNESS
    THEN l
    ELSE Light_update([l EXCEPT !.value = perceptualBrightnessStep(l.value, FALSE)], c)

\* Light::setState
Light_setState(l, c, state) ==
    Light_update([l EXCEPT !.on = state.on, !.value = state.value], c)

\* a makeVisible that forgets to raise a zero value
Light_makeVisible_keepZero(l, c) == [l EXCEPT !.on = TRUE]

\* Light::makeVisible: changes the state and does not call update()
Light_makeVisible(l, c) ==
    LET onNow == [l EXCEPT !.on = TRUE]
    IN  IF onNow.value = OFF_VALUE THEN [onNow EXCEPT !.value = MAX_BRIGHTNESS] ELSE onNow

(***************************************************************************)
(* Output::Manager (output_manager.hh).  Every operator maps the lights    *)
(* array to the array after the call; the loops visit the lights in the    *)
(* order Red, Green, Blue, White and no light reads another one.           *)
(***************************************************************************)
Manager_anyOn(ls) == \E c \in Colors : Light_isOn(ls[c])

Manager_anyVisible(ls) == \E c \in Colors : Light_isVisible(ls[c])

\* Output::Manager::getState
Manager_getState(ls) == [c \in Colors |-> Light_getState(ls[c])]

Manager_begin(ls, stored) == [c \in Colors |-> Light_restore(ls[c], c, stored[c])]

\* Output::Manager::setValue(value, color)
Manager_setValue(ls, value, color) ==
    [ls EXCEPT ![color] = Light_setValue(ls[color], color, value)]

\* Output::Manager::setOn(on, color)
Manager_setOn(ls, on, color) ==
    [ls EXCEPT ![color] = Light_setOn(ls[color], color, on)]

\* Output::Manager::toggle(color)
Manager_toggle(ls, color) ==
    LET light == ls[color]
        on == ~Light_isVisible(light)
        switched == Light_setOn(light, color, on)
    IN  [ls EXCEPT ![color] = IF on THEN Light_makeVisible(switched, color) ELSE switched]

\* Output::Manager::toggleAll
Manager_toggleAll(ls) ==
    LET on == Manager_anyVisible(ls)
    IN  [c \in Colors |->
            IF on
            THEN Light_setOn(ls[c], c, FALSE)
            ELSE Light_setValue(Light_setOn(ls[c], c, TRUE), c, ON_VALUE)]

\* Output::Manager::turnOffAll
Manager_turnOffAll(ls) == [c \in Colors |-> Light_setOn(ls[c], c, FALSE)]

\* Output::Manager::turnOnAll
Manager_turnOnAll(ls) == [c \in Colors |-> Light_makeVisible(ls[c], c)]

\* Output::Manager::increaseBrightness
Manager_increaseBrightness(ls) ==
    LET woken == IF ~Manager_anyOn(ls)
                 THEN [c \in Colors |-> Light_setState(ls[c], c, LightState(TRUE, OFF_VALUE))]
                 ELSE ls
    IN  [c \in Colors |-> Light_increaseBrightness(woken[c], c)]

\* Output::Manager::decreaseBrightness
Manager_decreaseBrightness(ls) ==
    IF Manager_anyOn(ls)
    THEN [c \in Colors |-> Light_decreaseBrightness(ls[c], c)]
    ELSE ls

\* Output::Manager::setColor(r, g, b)
Manager_setColor3(ls, r, g, b) ==
    [ls EXCEPT ![Red] = Light_setValue(ls[Red], Red, r),
               ![Green] = Light_setValue(ls[Green], Green, g),
               ![Blue] = Light_setValue(ls[Blue], Blue, b)]

\* Output::Manager::setColor(r, g, b, w)
Manager_setColor4(ls, r, g, b, w) ==
    [ls EXCEPT ![Red] = Light_setValue(ls[Red], Red, r),
               ![Green] = Light_setValue(ls[Green], Green, g),
               ![Blue] = Light_setValue(ls[Blue], Blue, b),
               ![White] = Light_setValue(ls[White], White, w)]

\* Output::Manager::setOn(r, g, b, w)
Manager_setOn4(ls, r, g, b, w) ==
    [ls EXCEPT ![Red] = Light_setOn(ls[Red], Red, r),
               ![Green] = Light_setOn(ls[Green], Green, g),
               ![Blue] = Light_setOn(ls[Blue], Blue, b),
               ![White] = Light_setOn(ls[White], White, w)]

\* Output::Manager::setAll(value, on)
Manager_setAll(ls, value, on) ==
    [c \in Colors |-> Light_setOn(Light_setValue(ls[c], c, value), c, on)]

\* Output::Manager::setState(state)
Manager_setState(ls, state) == [c \in Colors |-> Light_setState(ls[c], c, state[c])]

(***************************************************************************)
(* Inputs of the operations.                                               *)
(***************************************************************************)
\* brightness arguments of a single-channel write: the floor and a middle value
Values == {MIN_BRIGHTNESS, 128}

\* brightness arguments of a write to every channel: off and the maximum
EndValues == {OFF_VALUE, MAX_BRIGHTNESS}

\* the states a channel can be stored with: never written, left on, left off
StoredStates == {DefaultState, LightState(TRUE, MAX_BRIGHTNESS), LightState(FALSE, 128)}

\* Light::State values a whole-state write carries per channel
InputStates == {LightState(FALSE, OFF_VALUE), LightState(TRUE, OFF_VALUE),
                LightState(TRUE, 128), LightState(FALSE, MAX_BRIGHTNESS)}

\* Output::State values a whole-state write carries: the colour channels
\* alike, the white channel on its own
InputOutputStates ==
    {[c \in Colors |-> IF c = White THEN w ELSE s] : s \in InputStates, w \in InputStates}

(***************************************************************************)
(* Operations on the output channels.  Each action is one call of a public *)
(* operation of Output::Manager.                                           *)
(***************************************************************************)
\* the bookkeeping of one operation: count it and record what it found
Operation(name, colors) ==
    /\ started
    /\ opCount < MaxOps
    /\ opCount' = opCount + 1
    /\ lastOp' = [op |-> name, colors |-> colors, pre |-> Manager_getState(lights)]
    /\ UNCHANGED <<prefs, started, gateVars>>

\* setup(): outputManager.begin() restores every light from storage
Begin ==
    /\ ~started
    /\ started' = TRUE
    /\ lights' = Manager_begin(lights, prefs)
    /\ UNCHANGED <<prefs, opCount, lastOp, gateVars>>

SetValue(value, color) ==
    /\ Operation("setValue", {color})
    /\ lights' = Manager_setValue(lights, value, color)

SetOn(on, color) ==
    /\ Operation("setOn", {color})
    /\ lights' = Manager_setOn(lights, on, color)

Toggle(color) ==
    /\ Operation("toggle", {color})
    /\ lights' = Manager_toggle(lights, color)

\* Light::toggle on one light
LightToggle(color) ==
    /\ Operation("Light::toggle", {color})
    /\ lights' = [lights EXCEPT ![color] = Light_toggle(lights[color], color)]

ToggleAll ==
    /\ Operation("toggleAll", Colors)
    /\ lights' = Manager_toggleAll(lights)

TurnOffAll ==
    /\ Operation("turnOffAll", Colors)
    /\ lights' = Manager_turnOffAll(lights)

TurnOnAll ==
    /\ Operation("turnOnAll", Colors)
    /\ lights' = Manager_turnOnAll(lights)

IncreaseBrightness ==
    /\ Operation("increaseBrightness", Colors)
    /\ lights' = Manager_increaseBrightness(lights)

DecreaseBrightness ==
    /\ Operation("decreaseBrightness", Colors)
    /\ lights' = Manager_decreaseBrightness(lights)

SetColor3(r, g, b) ==
    /\ Operation("setColor", {Red, Green, Blue})
    /\ lights' = Manager_setColor3(lights, r, g, b)

SetColor4(r, g, b, w) ==
    /\ Operation("setColor", Colors)
    /\ lights' = Manager_setColor4(lights, r, g, b, w)

SetOn4(r, g, b, w) ==
    /\ Operation("setOn", Colors)
    /\ lights' = Manager_setOn4(lights, r, g, b, w)

SetAll(value, on) ==
    /\ Operation("setAll", Colors)
    /\ lights' = Manager_setAll(lights, value, on)

SetState(state) ==
    /\ Operation("setState", Colors)
    /\ lights' = Manager_setState(lights, state)

(***************************************************************************)
(* ThrottledValue<T> (throttled_value.hh).                                 *)
(***************************************************************************)
\* unsigned long has 32 bits on the ESP32; a value is handled as its two
\* 16 bit halves, HalfWord is 2^16
HalfWord == 65536

\* a - b in unsigned long arithmetic, as <<high half, low half>>
ULongSub(a, b) ==
    IF a >= b
    THEN <<(a - b) \div HalfWord, (a - b) % HalfWord>>
    ELSE LET m == b - a
         IN  <<(HalfWord - 1) - ((m - 1) \div HalfWord), (HalfWord - (m % HalfWord)) % HalfWord>>

\* d < n for an unsigned long d given by its halves
ULongLess(d, n) ==
    \/ d[1] < n \div HalfWord
    \/ d[1] = n \div HalfWord /\ d[2] < n % HalfWord

\* ThrottledValue(intervalMs); the handlers are global objects, so lastValue
\* starts as the zero Output::State
NewThrottledValue(intervalMs) ==
    [lastValue |-> [c \in Colors |-> DefaultState],
     lastSendTime |-> 0,
     throttleInterval |-> intervalMs]

\* a shouldSend that lets an unchanged value through once the interval is over
shouldSend_anyValue(gate, locked, now, newValue) ==
    ~locked /\ ~ULongLess(ULongSub(now, gate.lastSendTime), gate.throttleInterval)

\* ThrottledValue::shouldSend; locked: try_lock fails, another context holds
\* the mutex
shouldSend(gate, locked, now, newValue) ==
    IF locked
    THEN FALSE
    ELSE IF \/ ULongLess(ULongSub(now, gate.lastSendTime), gate.throttleInterval)
            \/ newValue = gate.lastValue
         THEN FALSE
         ELSE TRUE

\* ThrottledValue::setLastSent, the assignments made under the lock
setLastSent(gate, time, value) ==
    [gate EXCEPT !.lastValue = value, !.lastSendTime = time]

\* colorNotificationThrottle{500} and outputThrottle{200}
BleInterval == 500

WsInterval == 200

GateIds == {"ble", "ws"}

\* the WebSocket clients that may connect
Clients == {1, 2}

\* no state fetched, no shouldSend call made in this iteration of loop()
NoCandidate == [c \in Colors |-> DefaultState]

NoCheck ==
    [gate |-> "none", now |-> 0, clock |-> 0, lastSendTime |-> 0, changed |-> FALSE,
     locked |-> FALSE, afterSkip |-> FALSE, retried |-> FALSE, result |-> FALSE,
     written |-> FALSE, sent |-> "none"]

\* the kinds of state sendAllMessages publishes, in its order
Kinds ==
    {"output", "bleStatus", "deviceName", "ota", "espNowDevices", "espNowController",
     "firmwareVersion", "wifiDetails", "wifiStatus", "alexa"}

Builds == {"controller", "remote"}

\* the kinds whose source is not nullptr: the controller passes no
\* remoteEspNowHandler; the remote passes no outputManager, alexaIntegration
\* and controllerEspNowHandler; the firmware version has no source to miss
Configured(build) ==
    IF build = "controller"
    THEN Kinds \ {"espNowController"}
    ELSE Kinds \ {"output", "alexa", "espNowDevices"}

\* client == nullptr
NoClient == 0

\* no WS_EVT_CONNECT was the last event
NoEvent ==
    [client |-> NoClient, sent |-> [kind \in Kinds |-> [k \in Clients |-> 0]],
     heap |-> {}, before |-> [kind \in Kinds |-> NewThrottledValue(WsInterval)]]

\* AlexaIntegration::Settings::Mode
Modes == {"OFF", "RGBW_DEVICE", "RGB_DEVICE", "MULTI_DEVICE"}

\* a device name whose first character is the terminator
NoName == ""

\* Settings as constructed
DefaultSettings == [integrationMode |-> "OFF", deviceNames |-> [c \in Colors |-> NoName]]

NullPtr == 0

\* the union ModeDevice as four pointers: rgbw.device is the first,
\* rgb.rgbDevice and rgb.standaloneDevice are the first and second,
\* multi.devices are all four
Slots == 1 .. 4

\* a request body without any of the fields handleStateUpdate looks for
NoPayload == [on |-> Nullopt, bri |-> Nullopt, hue |-> Nullopt, sat |-> Nullopt, ct |-> Nullopt]

\* no request to the web handler was the last step
NoRequest ==
    [kind |-> "none", from |-> 0, index |-> 0, key |-> 0, idx |-> 0, status |-> 0,
     error |-> "", payload |-> NoPayload, device |-> NullPtr, callbacks |-> <<>>,
     heap |-> <<>>, lights |-> [c \in Colors |-> DefaultState]]

\* the low 24 bits of a MAC address: the ends of the range and one between
HardwareIds == {1, 11259375, 16777215}

\* AlexaIntegration and AsyncEspAlexaManager as constructed
AlexaConstructed ==
    /\ applyPc = "idle"
    /\ loopPc = "idle"
    /\ loopMode = "OFF"
    /\ loopPtrs = [i \in Slots |-> NullPtr]
    /\ httpPc = "idle"
    /\ httpPtr = NullPtr
    /\ slotsMode = "OFF"
    /\ fault = "none"
    /\ halted = FALSE
    /\ settings = DefaultSettings
    /\ heap = <<>>
    /\ registry = <<>>
    /\ slots = [i \in Slots |-> NullPtr]
    /\ alexaOutputState = [c \in Colors |-> DefaultState]
    /\ lastOutputStateUpdate = 0
    /\ webServer = FALSE
    /\ request = NoRequest
    /\ begins = 0
    /\ applies = 0
    /\ requests = 0

\* a device that never stored Alexa settings
AlexaInit ==
    /\ AlexaConstructed
    /\ alexaPrefs = DefaultSettings
    /\ mac24 = 11259375

\* nothing was written to a characteristic yet
NoWrite == [target |-> "none", length |-> 0, size |-> 0, count |-> 0, before |-> <<>>]

\* "admin"
Admin == <<97, 100, 109, 105, 110>>

\* a device out of the box: nothing stored, the HTTP credentials are the
\* defaults of getCredentials, no controller and no paired device
BlobInit ==
    /\ blobs = [calibration |-> Nullopt,
                wifi |-> [stored |-> Nullopt, begun |-> Nullopt],
                credentials |-> [memory |-> [username |-> Admin, password |-> <<>>],
                                 stored |-> Nullopt],
                controllerAddress |-> [memory |-> <<0, 0, 0, 0, 0, 0>>, stored |-> Nullopt],
                devices |-> [memory |-> <<>>, stored |-> Nullopt]]
    /\ lastWrite = NoWrite

\* Light::handle of no channel was the last step
NoHandle ==
    [c \in Colors |->
        [wrote |-> FALSE, now |-> 0, state |-> DefaultState, snapshot |-> DefaultState,
         lastPersistTime |-> 0, writtenAt |-> Nullopt]]

\* AlexaIntegration::handle has compared nothing yet
NoPoll ==
    [compared |-> FALSE, now |-> 0, previous |-> 0, found |-> FALSE,
     state |-> [c \in Colors |-> DefaultState], out |-> [c \in Colors |-> DefaultState],
     heap |-> <<>>, registry |-> <<>>, settings |-> DefaultSettings]

PollInit ==
    /\ polled = NoPoll
    /\ outputChangedAt = 0

\* triggerScan was not called yet
NoTrigger == [called |-> FALSE, result |-> FALSE, queued |-> 0, running |-> FALSE, after |-> 0]

\* WiFiManager after begin(): the queue created, the task waiting on it
ScanInit ==
    /\ wifiScanQueue = <<>>
    /\ scanPc = "blocked"
    /\ scanStatus = "NOT_STARTED"
    /\ scanResult = 0
    /\ scanLocal = <<>>
    /\ triggers = 0
    /\ triggered = NoTrigger
    /\ watcher = [pc |-> "idle", expected |-> 0, read |-> 0, overtaken |-> FALSE]

\* the execution contexts: the NimBLE host task that runs the callbacks,
\* the task of loop(), the task that delivers ESP-NOW packets
Contexts == {"ble", "loop", "espnow"}

Mutexes == {"deviceNameMutex", "sensorMutex", "espNowMutex", "bleMutex"}

NoAccess == [context |-> "none", field |-> "none", kind |-> "none", held |-> {}]

\* after setup(): nothing held, nothing running, the name not loaded
LockInit ==
    /\ holder = [m \in Mutexes |-> "none"]
    /\ running = [c \in Contexts |-> <<>>]
    /\ deviceName = ""
    /\ storedName = "rgbw-ctrl"
    /\ factor = 1
    /\ deviceData = 0
    /\ accessed = NoAccess

\* no operation and no getState in progress
StepInit ==
    /\ writer = [op |-> "none", steps |-> <<>>,
                 pre |-> [c \in Colors |-> DefaultState],
                 post |-> [c \in Colors |-> DefaultState]]
    /\ reader = [copied |-> <<>>, ops |-> {}]
    /\ composites = 0
    /\ observed = [returned |-> FALSE, state |-> [c \in Colors |-> DefaultState], ops |-> {},
                   begun |-> 0,
                   pre |-> [c \in Colors |-> DefaultState],
                   post |-> [c \in Colors |-> DefaultState]]

\* no packet yet
PacketInit ==
    packet = [count |-> 0, mac |-> <<>>, length |-> 0, directory |-> <<>>,
              before |-> [c \in Colors |-> DefaultState]]

\* requests to /update the model follows
MaxRequests == 2

\* a request that has not arrived
NoOtaRequest ==
    [phase |-> "none", method |-> "", credentials |-> "none", authenticated |-> FALSE,
     doubleRequest |-> FALSE, onDisconnect |-> FALSE, arrivedIn |-> "", response |-> <<>>]

\* OTA::Handler and AsyncOtaWebHandler as constructed, no update running
OtaInit ==
    /\ ota = [status |-> "Idle", totalBytesExpected |-> 0, totalBytesReceived |-> 0,
              uploadCompleted |-> FALSE, updateError |-> FALSE, running |-> FALSE,
              written |-> 0]
    /\ otaRequests = [id \in 1 .. MaxRequests |-> NoOtaRequest]
    /\ otaSeen = [step |-> "none", id |-> 0, changed |-> FALSE]

\* hue of 16 bits, saturation and value of 8
HueSamples == {0, 1, 10923, 21845, 32768, 43690, 54613, 65535}

SaturationSamples == {0, 127, 254, 255}

ValueSamples == {0, 1, 128, 254, 255}

\* the arguments of a call not yet made
ColorInit ==
    /\ hsvArgs \in HueSamples \X SaturationSamples \X ValueSamples
    /\ rgbwResult = <<>>
    /\ hsvBack = <<>>

\* the arguments of a call not yet made, of the scales Alexa uses:
\* saturation up to 254, brightness 1 to 254
ScaleInit ==
    /\ hsvArgs \in HueSamples \X (SaturationSamples \ {255}) \X (ValueSamples \ {0, 255})
    /\ rgbwResult = <<>>
    /\ hsvBack = <<>>

\* no call of hsvToRgbw is looked at
ColorIdle ==
    /\ hsvArgs = <<0, 0, 0>>
    /\ rgbwResult = <<0, 0, 0, 0>>
    /\ hsvBack = <<0, 0, 1>>

ExtraInit ==
    /\ ScanInit
    /\ LockInit
    /\ StepInit
    /\ PacketInit
    /\ OtaInit

\* the Lights as constructed
PersistConstructed ==
    /\ BlobInit
    /\ PollInit
    /\ ExtraInit
    /\ lastPersistedState = [c \in Colors |-> DefaultState]
    /\ lastPersistTime = [c \in Colors |-> 0]
    /\ changedAt = [c \in Colors |-> Nullopt]
    /\ writtenAt = [c \in Colors |-> Nullopt]
    /\ handled = NoHandle

PersistInit ==
    /\ PersistConstructed
    /\ ColorIdle

\* the Handler as constructed; the value of a source is a number, 0 the value
\* a ThrottledValue starts with; DeviceManager::FIRMWARE_VERSION is not that
KindInit ==
    /\ kindState = [kind \in Kinds |-> IF kind = "firmwareVersion" THEN 1 ELSE 0]
    /\ kindGates = [kind \in Kinds |->
                       [lastValue |-> 0, lastSendTime |-> 0, throttleInterval |-> WsInterval]]
    /\ lastSentHeapInfo = 0
    /\ event = NoEvent

SnapInit ==
    /\ KindInit
    /\ PersistInit
    /\ AlexaInit

\* the main loop, the tasks and the observers before setup()
NotifyInit ==
    /\ clock = 0
    /\ loopNow = 0
    /\ mainPc = "start"
    /\ candidate = NoCandidate
    /\ gates = [g \in GateIds |->
                   NewThrottledValue(IF g = "ble" THEN BleInterval ELSE WsInterval)]
    /\ mutex = [g \in GateIds |-> "free"]
    /\ bleChar = FALSE
    /\ blePc = "idle"
    /\ bleArg = NoCandidate
    /\ wsPc = "idle"
    /\ wsArg = NoCandidate
    /\ wsClient = 1
    /\ connected = {}
    /\ view = [k \in Clients |-> Nullopt]
    /\ bleView = Nullopt
    /\ lastCheck = NoCheck
    /\ skipped = [g \in GateIds |-> FALSE]
    /\ retry = [g \in GateIds |-> Nullopt]
    /\ changes = 0
    /\ connects = 0

\* the state of the notification as the global objects are constructed
GateInit ==
    /\ SnapInit
    /\ NotifyInit

(***************************************************************************)
(* The output channels on their own.                                       *)
(***************************************************************************)
InitLights ==
    /\ lights = [c \in Colors |-> NewLight]
    /\ prefs \in {[c \in Colors |-> IF c = White THEN w ELSE s] :
                    s \in StoredStates, w \in StoredStates}
    /\ started = FALSE
    /\ opCount = 0
    /\ lastOp = [op |-> "none", colors |-> {}, pre |-> [c \in Colors |-> DefaultState]]
    /\ config = "controller"
    /\ GateInit

NextLights ==
    \/ Begin
    \/ \E v \in Values, c \in Colors : SetValue(v, c)
    \/ \E b \in BOOLEAN, c \in Colors : SetOn(b, c)
    \/ \E c \in Colors : Toggle(c)
    \/ \E c \in Colors : LightToggle(c)
    \/ ToggleAll
    \/ TurnOffAll
    \/ TurnOnAll
    \/ IncreaseBrightness
    \/ DecreaseBrightness
    \/ \E v \in EndValues, w \in Values :
          \/ SetColor3(v, w, v)
          \/ SetColor4(v, v, w, w)
    \/ \E b \in BOOLEAN, w \in BOOLEAN : SetOn4(b, b, b, w)
    \/ \E v \in EndValues, b \in BOOLEAN : SetAll(v, b)
    \/ \E s \in InputOutputStates : SetState(s)

SpecLights == InitLights /\ [][NextLights]_vars

(***************************************************************************)
(* Brightness steps from every state a channel can hold: the red channel   *)
(* starts in any Light::State, the others in a stored one, and the steps   *)
(* go on without a bound.                                                  *)
(***************************************************************************)
\* every value of uint8_t
Bytes == 0 .. 255

\* the bookkeeping of one brightness step
DimOperation(name) ==
    /\ started
    /\ lastOp' = [op |-> name, colors |-> Colors, pre |-> Manager_getState(lights)]
    /\ UNCHANGED <<prefs, started, opCount, gateVars>>

\* Output::Manager::decreaseBrightness (rotary encoder, ESP-NOW, Alexa)
DimDown ==
    /\ DimOperation("decreaseBrightness")
    /\ lights' = Manager_decreaseBrightness(lights)

\* Output::Manager::increaseBrightness
DimUp ==
    /\ DimOperation("increaseBrightness")
    /\ lights' = Manager_increaseBrightness(lights)

\* the lights after setState calls that left red in any state
InitDim ==
    /\ \E on \in BOOLEAN, value \in Bytes, s \in StoredStates :
           lights = [c \in Colors |->
                        Light_setState(NewLight, c,
                                       IF c = Red THEN LightState(on, value) ELSE s)]
    /\ prefs = [c \in Colors |-> DefaultState]
    /\ started = TRUE
    /\ opCount = 0
    /\ lastOp = [op |-> "none", colors |-> {}, pre |-> [c \in Colors |-> DefaultState]]
    /\ config = "controller"
    /\ GateInit

NextDim == DimDown \/ DimUp

SpecDim == InitDim /\ [][NextDim]_vars

(***************************************************************************)
(* Switching the fixture off and on again, from every state the red        *)
(* channel can hold.                                                       *)
(***************************************************************************)
NextSwitch ==
    \/ \E c \in Colors : Toggle(c)
    \/ ToggleAll
    \/ TurnOffAll
    \/ TurnOnAll

SpecSwitch == InitDim /\ [][NextSwitch]_vars

(***************************************************************************)
(* The change notification of the output state: the main loop              *)
(* (controller.cpp loop()), the BLE host task in OutputColorCallback and   *)
(* the async TCP task in the WebSocket events run concurrently.            *)
(***************************************************************************)
\* millis() moves in steps of TimeStep, half the longer throttle interval and
\* more than the shorter one, MaxSteps times
MaxSteps == 3

TimeStep == BleInterval \div 2

MaxTime == MaxSteps * TimeStep

\* state changing inputs (button presses, BLE writes, colour messages) taken
MaxChanges == 2

\* WebSocket connections accepted
MaxConnects == 2

AllOn == [c \in Colors |-> LightState(TRUE, MAX_BRIGHTNESS)]

RedOnly == [c \in Colors |-> IF c = Red THEN LightState(TRUE, MAX_BRIGHTNESS) ELSE DefaultState]

\* the Output::State values a BLE write or a ColorMessage carries
MessageStates == {AllOn, RedOnly}

\* millis() advances: between two iterations of loop(), and inside one after
\* now was taken
Advance ==
    /\ started
    /\ mainPc \in {"start", "button"}
    /\ clock + TimeStep <= MaxTime
    /\ clock' = clock + TimeStep
    /\ UNCHANGED <<snapVars, lightVars, mainVars, gates, mutex, bleChar, bleTaskVars, wsTaskVars,
                   observerVars, historyVars, changes, connects>>

\* loop(): const auto now = millis()
LoopStart ==
    /\ started
    /\ mainPc = "start"
    /\ loopNow' = clock
    /\ mainPc' = "button"
    /\ candidate' = NoCandidate
    /\ lastCheck' = NoCheck
    /\ UNCHANGED <<snapVars, lightVars, clock, gates, mutex, bleChar, bleTaskVars, wsTaskVars,
                   observerVars, skipped, retry, changes, connects>>

\* boardButton.handle(now) with a short press: outputManager.toggleAll()
ButtonShortPress ==
    /\ mainPc = "button"
    /\ changes < MaxChanges
    /\ changes' = changes + 1
    /\ lights' = Manager_toggleAll(lights)
    /\ mainPc' = "ble"
    /\ UNCHANGED <<snapVars, prefs, started, opCount, lastOp, clock, loopNow, candidate,
                   gates, mutex, bleChar, bleTaskVars, wsTaskVars, observerVars,
                   historyVars, connects>>

\* boardButton.handle(now) without a press
ButtonIdle ==
    /\ mainPc = "button"
    /\ mainPc' = "ble"
    /\ UNCHANGED <<snapVars, lightVars, clock, loopNow, candidate, gates, mutex, bleChar,
                   bleTaskVars, wsTaskVars, observerVars, historyVars, changes, connects>>

\* what the main loop records of a shouldSend call on gate g
Checked(g, state, result) ==
    [gate |-> g, now |-> loopNow, clock |-> clock,
     lastSendTime |-> gates[g].lastSendTime,
     changed |-> state # gates[g].lastValue,
     locked |-> mutex[g] # "free",
     afterSkip |-> skipped[g],
     retried |-> retry[g] = <<state>>,
     result |-> result, written |-> FALSE, sent |-> "none"]

\* a main loop that waits for the mutex where shouldSend only tries it
MainCheck_waits(g, sendPc, skipPc) ==
    LET state == Manager_getState(lights)
        result == shouldSend(gates[g], FALSE, loopNow, state)
    IN  /\ candidate' = state
        /\ lastCheck' = Checked(g, state, result)
        /\ skipped' = [skipped EXCEPT ![g] = mutex[g] # "free"]
        /\ mainPc' = IF result THEN sendPc ELSE skipPc
        /\ UNCHANGED <<snapVars, lightVars, clock, loopNow, gates, mutex, bleChar, bleTaskVars,
                       wsTaskVars, observerVars, retry, changes, connects>>

\* the first half of sendThrottledMessage / sendColorNotification in the main
\* loop: fetch the state and ask the gate
MainCheck(g, sendPc, skipPc) ==
    LET state == Manager_getState(lights)
        result == shouldSend(gates[g], mutex[g] # "free", loopNow, state)
    IN  /\ candidate' = state
        /\ lastCheck' = Checked(g, state, result)
        /\ skipped' = [skipped EXCEPT ![g] = mutex[g] # "free"]
        /\ mainPc' = IF result THEN sendPc ELSE skipPc
        /\ UNCHANGED <<snapVars, lightVars, clock, loopNow, gates, mutex, bleChar, bleTaskVars,
                       wsTaskVars, observerVars, retry, changes, connects>>

\* outputManager.handle(now): sendColorNotification up to shouldSend
BleCheck ==
    /\ mainPc = "ble"
    /\ bleChar
    /\ MainCheck("ble", "bleNotify", "ws")

\* sendColorNotification with bleOutputColorCharacteristic == nullptr
BleCheckNoCharacteristic ==
    /\ mainPc = "ble"
    /\ ~bleChar
    /\ mainPc' = "ws"
    /\ UNCHANGED <<snapVars, lightVars, clock, loopNow, candidate, gates, mutex, bleChar,
                   bleTaskVars, wsTaskVars, observerVars, historyVars, changes, connects>>

\* what a callback's setLastSent on gate g leaves in the history: the gate is
\* not the one the last shouldSend call saw, and no retry is pending
Written(g) ==
    /\ lastCheck' = IF lastCheck.gate = g THEN [lastCheck EXCEPT !.written = TRUE]
                    ELSE lastCheck
    /\ retry' = [retry EXCEPT ![g] = Nullopt]

\* the second half in the main loop: after a delivery that succeeded,
\* setLastSent(now, state) (lock_guard waits for the mutex); after one that
\* failed, nothing.  retry: the candidate of a failed delivery, as long as
\* the gate is the one shouldSend saw
MainMark(g, ok) ==
    /\ ok => mutex[g] = "free"
    /\ gates' = IF ok THEN [gates EXCEPT ![g] = setLastSent(gates[g], loopNow, candidate)]
                ELSE gates
    /\ retry' = [retry EXCEPT ![g] = IF ok \/ lastCheck.written THEN Nullopt
                                     ELSE <<candidate>>]
    /\ lastCheck' = [lastCheck EXCEPT !.sent = IF ok THEN "ok" ELSE "failed"]

\* sendColorNotification: setValue, notify(), and setLastSent when notify()
\* returned true
BleNotify(ok) ==
    /\ mainPc = "bleNotify"
    /\ MainMark("ble", ok)
    /\ bleView' = IF ok THEN <<candidate>> ELSE bleView
    /\ mainPc' = "ws"
    /\ UNCHANGED <<snapVars, lightVars, clock, loopNow, candidate, mutex, bleChar,
                   bleTaskVars, wsTaskVars, connected, view, skipped, changes, connects>>

\* webSocketHandler.handle(now) with clients: sendOutputColorMessage up to
\* shouldSend
WsCheck ==
    /\ mainPc = "ws"
    /\ connected # {}
    /\ MainCheck("ws", "wsSend", "start")

\* webSocketHandler.handle(now) with ws.count() == 0
WsCheckNoClients ==
    /\ mainPc = "ws"
    /\ connected = {}
    /\ mainPc' = "start"
    /\ UNCHANGED <<snapVars, lightVars, clock, loopNow, candidate, gates, mutex, bleChar,
                   bleTaskVars, wsTaskVars, observerVars, historyVars, changes, connects>>

\* ws.binaryAll reaches the clients in got: ENQUEUED when every connected
\* client took the message and there is one
Enqueued(got) == got # {} /\ got = connected

\* sendThrottledMessage: binaryAll, and setLastSent when it returned ENQUEUED
WsSend(got) ==
    /\ mainPc = "wsSend"
    /\ got \subseteq connected
    /\ MainMark("ws", Enqueued(got))
    /\ view' = [k \in Clients |-> IF k \in got THEN <<candidate>> ELSE view[k]]
    /\ mainPc' = "start"
    /\ UNCHANGED <<snapVars, lightVars, clock, loopNow, candidate, mutex, bleChar,
                   bleTaskVars, wsTaskVars, connected, bleView, skipped, changes, connects>>

\* BLE::Manager::start: createServiceAndCharacteristics sets the characteristic
BleStart ==
    /\ started
    /\ ~bleChar
    /\ bleChar' = TRUE
    /\ UNCHANGED <<snapVars, lightVars, clock, mainVars, gates, mutex, bleTaskVars, wsTaskVars,
                   observerVars, historyVars, changes, connects>>

\* OutputColorCallback::onWrite with a value of sizeof(State): setState
BleWrite(state) ==
    /\ bleChar
    /\ blePc = "idle"
    /\ changes < MaxChanges
    /\ changes' = changes + 1
    /\ lights' = Manager_setState(lights, state)
    /\ bleArg' = state
    /\ blePc' = "stateSet"
    /\ UNCHANGED <<snapVars, prefs, started, opCount, lastOp, clock, mainVars, gates, mutex,
                   bleChar, wsTaskVars, observerVars, historyVars, connects>>

\* onWrite: colorNotificationThrottle.setLastSent takes the mutex
BleLock ==
    /\ blePc = "stateSet"
    /\ mutex["ble"] = "free"
    /\ mutex' = [mutex EXCEPT !["ble"] = "bleTask"]
    /\ blePc' = "locked"
    /\ UNCHANGED <<snapVars, lightVars, clock, mainVars, gates, bleChar, bleArg, wsTaskVars,
                   observerVars, historyVars, changes, connects>>

\* onWrite: setLastSent(millis(), state) writes the gate and releases the mutex
BleStamp ==
    /\ blePc = "locked"
    /\ gates' = [gates EXCEPT !["ble"] = setLastSent(gates["ble"], clock, bleArg)]
    /\ mutex' = [mutex EXCEPT !["ble"] = "free"]
    /\ Written("ble")
    /\ blePc' = "idle"
    /\ bleArg' = NoCandidate
    /\ UNCHANGED <<snapVars, lightVars, clock, mainVars, bleChar, wsTaskVars, observerVars,
                   skipped, changes, connects>>

\* WS_EVT_CONNECT: sendAllMessages(millis(), client); sendOutputColorMessage
\* fetches the state and shouldSend takes the mutex
WsConnect(k) ==
    /\ started
    /\ wsPc = "idle"
    /\ k \notin connected
    /\ \A j \in Clients : j < k => j \in connected
    /\ connects < MaxConnects
    /\ connects' = connects + 1
    /\ connected' = connected \cup {k}
    /\ view' = [view EXCEPT ![k] = Nullopt]
    /\ wsClient' = k
    /\ wsArg' = Manager_getState(lights)
    /\ mutex["ws"] = "free"
    /\ mutex' = [mutex EXCEPT !["ws"] = "wsTask"]
    /\ wsPc' = "connLocked"
    /\ UNCHANGED <<snapVars, lightVars, clock, mainVars, gates, bleChar, bleTaskVars, bleView,
                   historyVars, changes>>

\* WS_EVT_CONNECT: shouldSend releases the mutex, its answer is not used for a
\* client, client->binary sends the state to the client alone
WsConnectSend ==
    /\ wsPc = "connLocked"
    /\ mutex' = [mutex EXCEPT !["ws"] = "free"]
    /\ view' = [view EXCEPT ![wsClient] = <<wsArg>>]
    /\ wsPc' = "idle"
    /\ wsArg' = NoCandidate
    /\ UNCHANGED <<snapVars, lightVars, clock, mainVars, gates, bleChar, bleTaskVars, wsClient,
                   connected, bleView, historyVars, changes, connects>>

\* WS_EVT_DISCONNECT
WsDisconnect(k) ==
    /\ wsPc = "idle"
    /\ k \in connected
    /\ connected' = connected \ {k}
    /\ view' = [view EXCEPT ![k] = Nullopt]
    /\ UNCHANGED <<snapVars, lightVars, clock, mainVars, gates, mutex, bleChar, bleTaskVars,
                   wsTaskVars, bleView, historyVars, changes, connects>>

\* handleColorMessage of client k's ColorMessage: outputThrottle.setLastSent
\* takes the mutex; k holds the state it sent
WsColorMessage(k, state) ==
    /\ wsPc = "idle"
    /\ k \in connected
    /\ changes < MaxChanges
    /\ changes' = changes + 1
    /\ wsClient' = k
    /\ wsArg' = state
    /\ view' = [view EXCEPT ![k] = <<state>>]
    /\ mutex["ws"] = "free"
    /\ mutex' = [mutex EXCEPT !["ws"] = "wsTask"]
    /\ wsPc' = "colorLocked"
    /\ UNCHANGED <<snapVars, lightVars, clock, mainVars, gates, bleChar, bleTaskVars,
                   connected, bleView, historyVars, connects>>

\* handleColorMessage: setLastSent(millis(), message->state) writes the gate
\* and releases the mutex
WsColorStamp ==
    /\ wsPc = "colorLocked"
    /\ gates' = [gates EXCEPT !["ws"] = setLastSent(gates["ws"], clock, wsArg)]
    /\ mutex' = [mutex EXCEPT !["ws"] = "free"]
    /\ Written("ws")
    /\ wsPc' = "colorStamped"
    /\ UNCHANGED <<snapVars, lightVars, clock, mainVars, bleChar, bleTaskVars, wsArg, wsClient,
                   observerVars, skipped, changes, connects>>

\* handleColorMessage: outputManager->setState(message->state)
WsColorSetState ==
    /\ wsPc = "colorStamped"
    /\ lights' = Manager_setState(lights, wsArg)
    /\ wsPc' = "idle"
    /\ wsArg' = NoCandidate
    /\ UNCHANGED <<snapVars, prefs, started, opCount, lastOp, clock, mainVars, gates, mutex,
                   bleChar, bleTaskVars, wsClient, observerVars, historyVars,
                   changes, connects>>

\* a fresh controller: nothing stored
InitGate ==
    /\ lights = [c \in Colors |-> NewLight]
    /\ prefs = [c \in Colors |-> DefaultState]
    /\ started = FALSE
    /\ opCount = 0
    /\ lastOp = [op |-> "none", colors |-> {}, pre |-> [c \in Colors |-> DefaultState]]
    /\ config = "controller"
    /\ GateInit

\* the controller with the BLE server and no WebSocket client: the main loop
\* and the BLE host task
NextBle ==
    \/ Begin
    \/ Advance
    \/ LoopStart
    \/ ButtonShortPress
    \/ ButtonIdle
    \/ BleCheck
    \/ BleCheckNoCharacteristic
    \/ \E ok \in BOOLEAN : BleNotify(ok)
    \/ WsCheckNoClients
    \/ BleStart
    \/ \E s \in MessageStates : BleWrite(s)
    \/ BleLock
    \/ BleStamp

SpecBle == InitGate /\ [][NextBle]_vars

\* the controller with WebSocket clients and the BLE server off: the main
\* loop and the async TCP task
NextWs ==
    \/ Begin
    \/ Advance
    \/ LoopStart
    \/ ButtonShortPress
    \/ ButtonIdle
    \/ BleCheckNoCharacteristic
    \/ WsCheck
    \/ WsCheckNoClients
    \/ \E got \in SUBSET Clients : WsSend(got)
    \/ \E k \in Clients : WsConnect(k)
    \/ WsConnectSend
    \/ \E k \in Clients : WsDisconnect(k)
    \/ \E k \in Clients, s \in MessageStates : WsColorMessage(k, s)
    \/ WsColorStamp
    \/ WsColorSetState

SpecWs == InitGate /\ [][NextWs]_vars

\* ws.binaryAll returns ENQUEUED
WsSendAll == WsSend(connected) /\ Enqueued(connected)

\* a step of loop() on the controller without the BLE server, when every
\* binaryAll is ENQUEUED
MainLoopWs ==
    \/ LoopStart
    \/ ButtonShortPress
    \/ ButtonIdle
    \/ BleCheckNoCharacteristic
    \/ WsCheck
    \/ WsCheckNoClients
    \/ WsSendAll

\* a step that ends a WebSocket event handler
WsTaskStep == WsConnectSend \/ WsColorStamp \/ WsColorSetState

\* the WebSocket side with deliveries that succeed
NextWsDelivered ==
    \/ Begin
    \/ Advance
    \/ LoopStart
    \/ ButtonShortPress
    \/ ButtonIdle
    \/ BleCheckNoCharacteristic
    \/ WsCheck
    \/ WsCheckNoClients
    \/ WsSendAll
    \/ \E k \in Clients : WsConnect(k)
    \/ WsConnectSend
    \/ \E k \in Clients : WsDisconnect(k)
    \/ \E k \in Clients, s \in MessageStates : WsColorMessage(k, s)
    \/ WsColorStamp
    \/ WsColorSetState

\* time passes, loop() keeps running and the event handlers return
FairWs ==
    /\ InitGate
    /\ [][NextWsDelivered]_vars
    /\ WF_vars(Advance)
    /\ WF_vars(MainLoopWs)
    /\ WF_vars(WsTaskStep)

(***************************************************************************)
(* WebSocket::Handler over every kind of state: handle(now) from loop()    *)
(* and WS_EVT_CONNECT, each as one step.                                   *)
(***************************************************************************)
\* a sendThrottledMessage that asks the gate for a client as well
sendThrottledMessage_throttled(gate, state, now, client, locked, got, all) ==
    IF ~shouldSend(gate, locked, now, state)
    THEN [gate |-> gate, to |-> {}]
    ELSE IF client # NoClient
         THEN [gate |-> gate, to |-> {client}]
         ELSE IF got # {} /\ got = all
              THEN [gate |-> setLastSent(gate, now, state), to |-> got]
              ELSE [gate |-> gate, to |-> got]

\* Handler::sendThrottledMessage: the gate after the call and the clients the
\* message goes to; binaryAll reaches got of the clients all and returns
\* ENQUEUED when that is every one of them
sendThrottledMessage(gate, state, now, client, locked, got, all) ==
    IF ~shouldSend(gate, locked, now, state) /\ client = NoClient
    THEN [gate |-> gate, to |-> {}]
    ELSE IF client # NoClient
         THEN [gate |-> gate, to |-> {client}]
         ELSE IF got # {} /\ got = all
              THEN [gate |-> setLastSent(gate, now, state), to |-> got]
              ELSE [gate |-> gate, to |-> got]

HEAP_MESSAGE_INTERVAL_MS == 750

\* sendHeapInfoMessage: whether the HeapMessage goes out to every client
HeapDue(now) == ~ULongLess(ULongSub(now, lastSentHeapInfo), HEAP_MESSAGE_INTERVAL_MS)

\* sendAllMessages(now, client): sendHeapInfoMessage, then one
\* sendThrottledMessage for each kind whose source is there
sendAllMessages(now, client, locked, got, all) ==
    [heap |-> IF HeapDue(now) THEN all ELSE {},
     lastSentHeapInfo |-> IF HeapDue(now) THEN now ELSE lastSentHeapInfo,
     kinds |-> [kind \in Kinds |->
                   IF kind \in Configured(config)
                   THEN sendThrottledMessage(kindGates[kind], kindState[kind], now, client,
                                             locked, got, all)
                   ELSE [gate |-> kindGates[kind], to |-> {}]]]

\* millis() advances
SnapAdvance ==
    /\ clock + TimeStep <= MaxTime
    /\ clock' = clock + TimeStep
    /\ event' = NoEvent
    /\ UNCHANGED <<lightVars, notifyVars, connected, changes, connects, config, kindState,
                   kindGates, lastSentHeapInfo>>

\* the kinds whose source changes its value: one that both firmwares publish,
\* one of the controller alone and one of the remote alone
Changing == {"wifiStatus", "output", "espNowController"}

\* a source gets another value
SourceChange(kind) ==
    /\ kind \in Configured(config) \cap Changing
    /\ changes < MaxChanges
    /\ changes' = changes + 1
    /\ kindState' = [kindState EXCEPT ![kind] = 1 - @]
    /\ event' = NoEvent
    /\ UNCHANGED <<lightVars, notifyVars, clock, connected, connects, config, kindGates,
                   lastSentHeapInfo>>

\* Handler::handle(now) with ws.count() > 0: sendAllMessages(now)
SnapTick(got) ==
    /\ connected # {}
    /\ got \subseteq connected
    /\ LET r == sendAllMessages(clock, NoClient, FALSE, got, connected)
       IN  /\ kindGates' = [kind \in Kinds |-> r.kinds[kind].gate]
           /\ lastSentHeapInfo' = r.lastSentHeapInfo
    /\ event' = NoEvent
    /\ UNCHANGED <<lightVars, notifyVars, clock, connected, changes, connects, config,
                   kindState>>

\* WS_EVT_CONNECT of client k, already in the client list:
\* sendAllMessages(millis(), client); locked: loop() holds the gates' mutex
\* as shouldSend tries it
SnapConnect(k, locked) ==
    /\ k \notin connected
    /\ \A j \in Clients : j < k => j \in connected
    /\ connects < MaxConnects
    /\ connects' = connects + 1
    /\ connected' = connected \cup {k}
    /\ LET r == sendAllMessages(clock, k, locked, connected', connected')
       IN  /\ kindGates' = [kind \in Kinds |-> r.kinds[kind].gate]
           /\ lastSentHeapInfo' = r.lastSentHeapInfo
           /\ event' = [client |-> k,
                        sent |-> [kind \in Kinds |->
                                     [c \in Clients |->
                                         IF c \in r.kinds[kind].to THEN 1 ELSE 0]],
                        heap |-> r.heap,
                        before |-> kindGates]
    /\ UNCHANGED <<lightVars, notifyVars, clock, changes, config, kindState>>

\* WS_EVT_DISCONNECT
SnapDisconnect(k) ==
    /\ k \in connected
    /\ connected' = connected \ {k}
    /\ event' = NoEvent
    /\ UNCHANGED <<lightVars, notifyVars, clock, changes, connects, config, kindState,
                   kindGates, lastSentHeapInfo>>

\* either firmware, before setup()
InitSnapshot ==
    /\ lights = [c \in Colors |-> NewLight]
    /\ prefs = [c \in Colors |-> DefaultState]
    /\ started = FALSE
    /\ opCount = 0
    /\ lastOp = [op |-> "none", colors |-> {}, pre |-> [c \in Colors |-> DefaultState]]
    /\ config \in Builds
    /\ GateInit

NextSnapshot ==
    \/ SnapAdvance
    \/ \E kind \in Kinds : SourceChange(kind)
    \/ \E got \in SUBSET Clients : SnapTick(got)
    \/ \E k \in Clients, locked \in BOOLEAN : SnapConnect(k, locked)
    \/ \E k \in Clients : SnapDisconnect(k)

SpecSnapshot == InitSnapshot /\ [][NextSnapshot]_vars

(***************************************************************************)
(* Light::handle: loop() calls Output::Manager::handle(now), which calls   *)
(* handle(now) of every Light; the mutators run in between.  BLE is not    *)
(* started, so sendColorNotification returns at its first check.           *)
(***************************************************************************)
PERSIST_DEBOUNCE_MS == 500

PersistMaxTime == (MaxSteps + 2) * TimeStep

\* a Light::handle that writes whatever differs from the snapshot
Light_handleDue_anyTime(state, snapshot, last, now) == state # snapshot

\* the condition of Light::handle, in unsigned long arithmetic
Light_handleDue(state, snapshot, last, now) ==
    /\ state # snapshot
    /\ ~ULongLess(ULongSub(now, last), PERSIST_DEBOUNCE_MS)

\* millis() advances
PersistAdvance ==
    /\ clock + TimeStep <= PersistMaxTime
    /\ clock' = clock + TimeStep
    /\ handled' = NoHandle
    /\ UNCHANGED <<lights, prefs, changes, idleVars, alexaVars, lastPersistedState, lastPersistTime,
                   changedAt, writtenAt>>

\* a mutator leaves the lights as after: the channels whose state changed
\* get the time of the change
Mutated(after) ==
    /\ changes < MaxChanges
    /\ changes' = changes + 1
    /\ lights' = after
    /\ changedAt' = [c \in Colors |->
                        IF Light_getState(after[c]) # Light_getState(lights[c])
                        THEN <<clock>>
                        ELSE changedAt[c]]
    /\ handled' = NoHandle
    /\ UNCHANGED <<prefs, clock, idleVars, alexaVars, lastPersistedState, lastPersistTime, writtenAt>>

\* Output::Manager::toggle from another task or the button
PersistToggle(color) == Mutated(Manager_toggle(lights, color))

\* Output::Manager::setValue from another task
PersistSetValue(value, color) == Mutated(Manager_setValue(lights, value, color))

\* a handle that writes within the 500 ms after a write and not after them
PersistHandle_insideWindow ==
    /\ ~bleChar
    /\ LET now == clock
           due == [c \in Colors |->
                      /\ Light_getState(lights[c]) # lastPersistedState[c]
                      /\ ULongLess(ULongSub(now, lastPersistTime[c]), PERSIST_DEBOUNCE_MS)]
       IN  /\ prefs' = [c \in Colors |->
                           IF due[c] THEN Light_getState(lights[c]) ELSE prefs[c]]
           /\ lastPersistedState' = [c \in Colors |->
                                         IF due[c] THEN Light_getState(lights[c])
                                         ELSE lastPersistedState[c]]
           /\ lastPersistTime' = [c \in Colors |->
                                     IF due[c] THEN now ELSE lastPersistTime[c]]
           /\ writtenAt' = [c \in Colors |-> IF due[c] THEN <<now>> ELSE writtenAt[c]]
           /\ handled' = [c \in Colors |->
                             [wrote |-> due[c], now |-> now,
                              state |-> Light_getState(lights[c]),
                              snapshot |-> lastPersistedState[c],
                              lastPersistTime |-> lastPersistTime[c],
                              writtenAt |-> writtenAt[c]]]
    /\ UNCHANGED <<lights, clock, changes, idleVars, alexaVars, changedAt>>

\* loop(): now = millis(), Output::Manager::handle(now): Light::handle(now)
\* of every light, then sendColorNotification(now) without a characteristic
PersistHandle ==
    /\ ~bleChar
    /\ LET now == clock
           due == [c \in Colors |->
                      Light_handleDue(Light_getState(lights[c]), lastPersistedState[c],
                                      lastPersistTime[c], now)]
       IN  /\ prefs' = [c \in Colors |->
                           IF due[c] THEN Light_getState(lights[c]) ELSE prefs[c]]
           /\ lastPersistedState' = [c \in Colors |->
                                         IF due[c] THEN Light_getState(lights[c])
                                         ELSE lastPersistedState[c]]
           /\ lastPersistTime' = [c \in Colors |->
                                     IF due[c] THEN now ELSE lastPersistTime[c]]
           /\ writtenAt' = [c \in Colors |-> IF due[c] THEN <<now>> ELSE writtenAt[c]]
           /\ handled' = [c \in Colors |->
                             [wrote |-> due[c], now |-> now,
                              state |-> Light_getState(lights[c]),
                              snapshot |-> lastPersistedState[c],
                              lastPersistTime |-> lastPersistTime[c],
                              writtenAt |-> writtenAt[c]]]
    /\ UNCHANGED <<lights, clock, changes, idleVars, alexaVars, changedAt>>

\* after setup(): every light restored from storage
InitPersist ==
    /\ prefs \in {[c \in Colors |-> IF c = White THEN w ELSE s] :
                    s \in StoredStates, w \in StoredStates}
    /\ lights = Manager_begin([c \in Colors |-> NewLight], prefs)
    /\ started = TRUE
    /\ opCount = 0
    /\ lastOp = [op |-> "none", colors |-> {}, pre |-> [c \in Colors |-> DefaultState]]
    /\ config = "controller"
    /\ GateInit

NextPersist ==
    \/ PersistAdvance
    \/ \E c \in {Red, White} : PersistToggle(c)
    \/ \E v \in Values, c \in {Red, White} : PersistSetValue(v, c)
    \/ PersistHandle

SpecPersist == InitPersist /\ [][NextPersist]_vars

(***************************************************************************)
(* The same loop() left to run: millis() advances as long as a channel     *)
(* waits for its 500 ms, and loop() goes on calling handle.                *)
(***************************************************************************)
\* the state of the channel differs from its snapshot and the 500 ms since
\* the last write are not over
Waiting(c) ==
    /\ Light_getState(lights[c]) # lastPersistedState[c]
    /\ ~Light_handleDue(Light_getState(lights[c]), lastPersistedState[c], lastPersistTime[c],
                        clock)

\* millis() advances
SettleAdvance ==
    /\ clock + TimeStep <= PersistMaxTime \/ \E c \in Colors : Waiting(c)
    /\ clock' = clock + TimeStep
    /\ handled' = NoHandle
    /\ UNCHANGED <<lights, prefs, changes, idleVars, alexaVars, lastPersistedState, lastPersistTime,
                   changedAt, writtenAt>>

\* after setup(): every light restored from storage, off or on
InitSettle ==
    /\ prefs \in {[c \in Colors |-> DefaultState],
                  [c \in Colors |-> LightState(TRUE, MAX_BRIGHTNESS)]}
    /\ lights = Manager_begin([c \in Colors |-> NewLight], prefs)
    /\ started = TRUE
    /\ opCount = 0
    /\ lastOp = [op |-> "none", colors |-> {}, pre |-> [c \in Colors |-> DefaultState]]
    /\ config = "controller"
    /\ GateInit

NextSettle ==
    \/ SettleAdvance
    \/ PersistToggle(Red)
    \/ \E v \in Values : PersistSetValue(v, Red)
    \/ PersistHandle

\* loop() never stops, and neither does millis()
SpecSettle ==
    InitSettle /\ [][NextSettle]_vars /\ WF_vars(SettleAdvance) /\ WF_vars(PersistHandle)

(***************************************************************************)
(* The Alexa integration: AlexaIntegration, AsyncEspAlexaManager, the      *)
(* devices and AsyncEspAlexaWebHandler.  An operator on the integration    *)
(* takes and returns the record a of its heap, registry and slots.         *)
(***************************************************************************)
\* got-IP events, settings writes and state requests in a run
MaxEvents == 3

\* what AsyncEspAlexaColorUtils computes in float for the arguments the
\* specifications reach, as pairs of a call and its result:
\* rgbToHsv(r, g, b) gives <<hue, sat, val>>, and hsvToRgb(hue, sat, val)
\* and ctToRgb(brightness, mireds) give <<r, g, b>>
ColorTable ==
    {<<<<"ctToRgb", 1, 500>>, <<1, 0, 0>>>>,
     <<<<"ctToRgb", 126, 500>>, <<126, 67, 6>>>>,
     <<<<"ctToRgb", 127, 500>>, <<127, 68, 6>>>>,
     <<<<"ctToRgb", 254, 500>>, <<254, 136, 13>>>>,
     <<<<"hsvToRgb", 0, 0, 0>>, <<0, 0, 0>>>>,
     <<<<"hsvToRgb", 0, 0, 1>>, <<1, 1, 1>>>>,
     <<<<"hsvToRgb", 0, 0, 126>>, <<126, 126, 126>>>>,
     <<<<"hsvToRgb", 0, 0, 127>>, <<128, 128, 128>>>>,
     <<<<"hsvToRgb", 0, 0, 128>>, <<129, 129, 129>>>>,
     <<<<"hsvToRgb", 0, 0, 254>>, <<255, 255, 255>>>>,
     <<<<"hsvToRgb", 0, 0, 255>>, <<255, 255, 255>>>>,
     <<<<"hsvToRgb", 0, 126, 127>>, <<128, 64, 64>>>>,
     <<<<"hsvToRgb", 0, 126, 254>>, <<255, 128, 128>>>>,
     <<<<"hsvToRgb", 0, 127, 0>>, <<0, 0, 0>>>>,
     <<<<"hsvToRgb", 0, 127, 1>>, <<1, 0, 0>>>>,
     <<<<"hsvToRgb", 0, 127, 127>>, <<128, 63, 63>>>>,
     <<<<"hsvToRgb", 0, 127, 128>>, <<129, 64, 64>>>>,
     <<<<"hsvToRgb", 0, 127, 254>>, <<255, 127, 127>>>>,
     <<<<"hsvToRgb", 0, 127, 255>>, <<255, 128, 128>>>>,
     <<<<"hsvToRgb", 0, 254, 0>>, <<0, 0, 0>>>>,
     <<<<"hsvToRgb", 0, 254, 1>>, <<1, 0, 0>>>>,
     <<<<"hsvToRgb", 0, 254, 126>>, <<126, 0, 0>>>>,
     <<<<"hsvToRgb", 0, 254, 127>>, <<128, 0, 0>>>>,
     <<<<"hsvToRgb", 0, 254, 128>>, <<129, 0, 0>>>>,
     <<<<"hsvToRgb", 0, 254, 254>>, <<255, 0, 0>>>>,
     <<<<"hsvToRgb", 0, 254, 255>>, <<255, 0, 0>>>>,
     <<<<"hsvToRgb", 0, 255, 0>>, <<0, 0, 0>>>>,
     <<<<"hsvToRgb", 0, 255, 1>>, <<1, 1, 1>>>>,
     <<<<"hsvToRgb", 0, 255, 128>>, <<129, 129, 129>>>>,
     <<<<"hsvToRgb", 0, 255, 254>>, <<255, 255, 255>>>>,
     <<<<"hsvToRgb", 0, 255, 255>>, <<255, 255, 255>>>>,
     <<<<"hsvToRgb", 1, 0, 0>>, <<0, 0, 0>>>>,
     <<<<"hsvToRgb", 1, 0, 1>>, <<1, 1, 1>>>>,
     <<<<"hsvToRgb", 1, 0, 128>>, <<129, 129, 129>>>>,
     <<<<"hsvToRgb", 1, 0, 254>>, <<255, 255, 255>>>>,
     <<<<"hsvToRgb", 1, 0, 255>>, <<255, 255, 255>>>>,
     <<<<"hsvToRgb", 1, 127, 0>>, <<0, 0, 0>>>>,
     <<<<"hsvToRgb", 1, 127, 1>>, <<1, 0, 0>>>>,
     <<<<"hsvToRgb", 1, 127, 128>>, <<129, 64, 64>>>>,
     <<<<"hsvToRgb", 1, 127, 254>>, <<255, 127, 127>>>>,
     <<<<"hsvToRgb", 1, 127, 255>>, <<255, 128, 128>>>>,
     <<<<"hsvToRgb", 1, 254, 0>>, <<0, 0, 0>>>>,
     <<<<"hsvToRgb", 1, 254, 1>>, <<1, 0, 0>>>>,
     <<<<"hsvToRgb", 1, 254, 128>>, <<129, 0, 0>>>>,
     <<<<"hsvToRgb", 1, 254, 254>>, <<255, 0, 0>>>>,
     <<<<"hsvToRgb", 1, 254, 255>>, <<255, 0, 0>>>>,
     <<<<"hsvToRgb", 1, 255, 0>>, <<0, 0, 0>>>>,
     <<<<"hsvToRgb", 1, 255, 1>>, <<1, 0, 1>>>>,
     <<<<"hsvToRgb", 1, 255, 128>>, <<129, 0, 129>>>>,
     <<<<"hsvToRgb", 1, 255, 254>>, <<255, 0, 255>>>>,
     <<<<"hsvToRgb", 1, 255, 255>>, <<255, 0, 255>>>>,
     <<<<"hsvToRgb", 5550, 242, 127>>, <<128, 67, 6>>>>,
     <<<<"hsvToRgb", 5574, 241, 127>>, <<128, 68, 6>>>>,
     <<<<"hsvToRgb", 5574, 241, 253>>, <<255, 136, 13>>>>,
     <<<<"hsvToRgb", 5574, 241, 254>>, <<255, 136, 13>>>>,
     <<<<"hsvToRgb", 5596, 242, 127>>, <<128, 68, 6>>>>,
     <<<<"hsvToRgb", 10922, 126, 127>>, <<128, 127, 64>>>>,
     <<<<"hsvToRgb", 10922, 126, 254>>, <<255, 255, 128>>>>,
     <<<<"hsvToRgb", 10922, 127, 127>>, <<128, 127, 63>>>>,
     <<<<"hsvToRgb", 10922, 127, 254>>, <<255, 255, 127>>>>,
     <<<<"hsvToRgb", 10922, 254, 127>>, <<128, 127, 0>>>>,
     <<<<"hsvToRgb", 10922, 254, 254>>, <<255, 255, 0>>>>,
     <<<<"hsvToRgb", 10923, 0, 0>>, <<0, 0, 0>>>>,
     <<<<"hsvToRgb", 10923, 0, 1>>, <<1, 1, 1>>>>,
     <<<<"hsvToRgb", 10923, 0, 128>>, <<129, 129, 129>>>>,
     <<<<"hsvToRgb", 10923, 0, 254>>, <<255, 255, 255>>>>,
     <<<<"hsvToRgb", 10923, 0, 255>>, <<255, 255, 255>>>>,
     <<<<"hsvToRgb", 10923, 127, 0>>, <<0, 0, 0>>>>,
     <<<<"hsvToRgb", 10923, 127, 1>>, <<1, 1, 0>>>>,
     <<<<"hsvToRgb", 10923, 127, 128>>, <<128, 129, 64>>>>,
     <<<<"hsvToRgb", 10923, 127, 254>>, <<255, 255, 127>>>>,
     <<<<"hsvToRgb", 10923, 127, 255>>, <<255, 255, 128>>>>,
     <<<<"hsvToRgb", 10923, 254, 0>>, <<0, 0, 0>>>>,
     <<<<"hsvToRgb", 10923, 254, 1>>, <<1, 1, 0>>>>,
     <<<<"hsvToRgb", 10923, 254, 128>>, <<128, 129, 0>>>>,
     <<<<"hsvToRgb", 10923, 254, 254>>, <<255, 255, 0>>>>,
     <<<<"hsvToRgb", 10923, 254, 255>>, <<255, 255, 0>>>>,
     <<<<"hsvToRgb", 10923, 255, 0>>, <<0, 0, 0>>>>,
     <<<<"hsvToRgb", 10923, 255, 1>>, <<1, 1, 1>>>>,
     <<<<"hsvToRgb", 10923, 255, 128>>, <<128, 129, 129>>>>,
     <<<<"hsvToRgb", 10923, 255, 254>>, <<255, 255, 255>>>>,
     <<<<"hsvToRgb", 10923, 255, 255>>, <<255, 255, 255>>>>,
     <<<<"hsvToRgb", 21845, 0, 0>>, <<0, 0, 0>>>>,
     <<<<"hsvToRgb", 21845, 0, 1>>, <<1, 1, 1>>>>,
     <<<<"hsvToRgb", 21845, 0, 128>>, <<129, 129, 129>>>>,
     <<<<"hsvToRgb", 21845, 0, 254>>, <<255, 255, 255>>>>,
     <<<<"hsvToRgb", 21845, 0, 255>>, <<255, 255, 255>>>>,
     <<<<"hsvToRgb", 21845, 126, 127>>, <<64, 128, 64>>>>,
     <<<<"hsvToRgb", 21845, 126, 254>>, <<128, 255, 128>>>>,
     <<<<"hsvToRgb", 21845, 127, 0>>, <<0, 0, 0>>>>,
     <<<<"hsvToRgb", 21845, 127, 1>>, <<0, 1, 0>>>>,
     <<<<"hsvToRgb", 21845, 127, 128>>, <<64, 129, 64>>>>,
     <<<<"hsvToRgb", 21845, 127, 254>>, <<127, 255, 127>>>>,
     <<<<"hsvToRgb", 21845, 127, 255>>, <<128, 255, 128>>>>,
     <<<<"hsvToRgb", 21845, 254, 0>>, <<0, 0, 0>>>>,
     <<<<"hsvToRgb", 21845, 254, 1>>, <<0, 1, 0>>>>,
     <<<<"hsvToRgb", 21845, 254, 126>>, <<0, 126, 0>>>>,
     <<<<"hsvToRgb", 21845, 254, 127>>, <<0, 128, 0>>>>,
     <<<<"hsvToRgb", 21845, 254, 128>>, <<0, 129, 0>>>>,
     <<<<"hsvToRgb", 21845, 254, 254>>, <<0, 255, 0>>>>,
     <<<<"hsvToRgb", 21845, 254, 255>>, <<0, 255, 0>>>>,
     <<<<"hsvToRgb", 21845, 255, 0>>, <<0, 0, 0>>>>,
     <<<<"hsvToRgb", 21845, 255, 1>>, <<1, 1, 1>>>>,
     <<<<"hsvToRgb", 21845, 255, 128>>, <<129, 129, 129>>>>,
     <<<<"hsvToRgb", 21845, 255, 254>>, <<255, 255, 255>>>>,
     <<<<"hsvToRgb", 21845, 255, 255>>, <<255, 255, 255>>>>,
     <<<<"hsvToRgb", 32767, 126, 127>>, <<64, 128, 127>>>>,
     <<<<"hsvToRgb", 32767, 126, 254>>, <<128, 255, 255>>>>,
     <<<<"hsvToRgb", 32767, 127, 127>>, <<63, 128, 127>>>>,
     <<<<"hsvToRgb", 32767, 127, 254>>, <<127, 255, 255>>>>,
     <<<<"hsvToRgb", 32767, 254, 127>>, <<0, 128, 127>>>>,
     <<<<"hsvToRgb", 32767, 254, 254>>, <<0, 255, 255>>>>,
     <<<<"hsvToRgb", 32768, 0, 0>>, <<0, 0, 0>>>>,
     <<<<"hsvToRgb", 32768, 0, 1>>, <<1, 1, 1>>>>,
     <<<<"hsvToRgb", 32768, 0, 128>>, <<129, 129, 129>>>>,
     <<<<"hsvToRgb", 32768, 0, 254>>, <<255, 255, 255>>>>,
     <<<<"hsvToRgb", 32768, 0, 255>>, <<255, 255, 255>>>>,
     <<<<"hsvToRgb", 32768, 127, 0>>, <<0, 0, 0>>>>,
     <<<<"hsvToRgb", 32768, 127, 1>>, <<0, 1, 1>>>>,
     <<<<"hsvToRgb", 32768, 127, 128>>, <<64, 128, 129>>>>,
     <<<<"hsvToRgb", 32768, 127, 254>>, <<127, 255, 255>>>>,
     <<<<"hsvToRgb", 32768, 127, 255>>, <<128, 255, 255>>>>,
     <<<<"hsvToRgb", 32768, 254, 0>>, <<0, 0, 0>>>>,
     <<<<"hsvToRgb", 32768, 254, 1>>, <<0, 1, 1>>>>,
     <<<<"hsvToRgb", 32768, 254, 128>>, <<0, 128, 129>>>>,
     <<<<"hsvToRgb", 32768, 254, 254>>, <<0, 255, 255>>>>,
     <<<<"hsvToRgb", 32768, 254, 255>>, <<0, 255, 255>>>>,
     <<<<"hsvToRgb", 32768, 255, 0>>, <<0, 0, 0>>>>,
     <<<<"hsvToRgb", 32768, 255, 1>>, <<1, 1, 1>>>>,
     <<<<"hsvToRgb", 32768, 255, 128>>, <<129, 128, 129>>>>,
     <<<<"hsvToRgb", 32768, 255, 254>>, <<255, 255, 255>>>>,
     <<<<"hsvToRgb", 32768, 255, 255>>, <<255, 255, 255>>>>,
     <<<<"hsvToRgb", 43690, 0, 0>>, <<0, 0, 0>>>>,
     <<<<"hsvToRgb", 43690, 0, 1>>, <<1, 1, 1>>>>,
     <<<<"hsvToRgb", 43690, 0, 128>>, <<129, 129, 129>>>>,
     <<<<"hsvToRgb", 43690, 0, 254>>, <<255, 255, 255>>>>,
     <<<<"hsvToRgb", 43690, 0, 255>>, <<255, 255, 255>>>>,
     <<<<"hsvToRgb", 43690, 127, 0>>, <<0, 0, 0>>>>,
     <<<<"hsvToRgb", 43690, 127, 1>>, <<0, 0, 1>>>>,
     <<<<"hsvToRgb", 43690, 127, 128>>, <<64, 64, 129>>>>,
     <<<<"hsvToRgb", 43690, 127, 254>>, <<127, 127, 255>>>>,
     <<<<"hsvToRgb", 43690, 127, 255>>, <<128, 128, 255>>>>,
     <<<<"hsvToRgb", 43690, 254, 0>>, <<0, 0, 0>>>>,
     <<<<"hsvToRgb", 43690, 254, 1>>, <<0, 0, 1>>>>,
     <<<<"hsvToRgb", 43690, 254, 126>>, <<0, 0, 126>>>>,
     <<<<"hsvToRgb", 43690, 254, 127>>, <<0, 0, 128>>>>,
     <<<<"hsvToRgb", 43690, 254, 128>>, <<0, 0, 129>>>>,
     <<<<"hsvToRgb", 43690, 254, 254>>, <<0, 0, 255>>>>,
     <<<<"hsvToRgb", 43690, 254, 255>>, <<0, 0, 255>>>>,
     <<<<"hsvToRgb", 43690, 255, 0>>, <<0, 0, 0>>>>,
     <<<<"hsvToRgb", 43690, 255, 1>>, <<1, 1, 1>>>>,
     <<<<"hsvToRgb", 43690, 255, 128>>, <<129, 129, 129>>>>,
     <<<<"hsvToRgb", 43690, 255, 254>>, <<255, 255, 255>>>>,
     <<<<"hsvToRgb", 43690, 255, 255>>, <<255, 255, 255>>>>,
     <<<<"hsvToRgb", 54613, 0, 0>>, <<0, 0, 0>>>>,
     <<<<"hsvToRgb", 54613, 0, 1>>, <<1, 1, 1>>>>,
     <<<<"hsvToRgb", 54613, 0, 128>>, <<129, 129, 129>>>>,
     <<<<"hsvToRgb", 54613, 0, 254>>, <<255, 255, 255>>>>,
     <<<<"hsvToRgb", 54613, 0, 255>>, <<255, 255, 255>>>>,
     <<<<"hsvToRgb", 54613, 127, 0>>, <<0, 0, 0>>>>,
     <<<<"hsvToRgb", 54613, 127, 1>>, <<1, 0, 1>>>>,
     <<<<"hsvToRgb", 54613, 127, 128>>, <<129, 64, 128>>>>,
     <<<<"hsvToRgb", 54613, 127, 254>>, <<255, 127, 255>>>>,
     <<<<"hsvToRgb", 54613, 127, 255>>, <<255, 128, 255>>>>,
     <<<<"hsvToRgb", 54613, 254, 0>>, <<0, 0, 0>>>>,
     <<<<"hsvToRgb", 54613, 254, 1>>, <<1, 0, 1>>>>,
     <<<<"hsvToRgb", 54613, 254, 128>>, <<129, 0, 128>>>>,
     <<<<"hsvToRgb", 54613, 254, 254>>, <<255, 0, 255>>>>,
     <<<<"hsvToRgb", 54613, 254, 255>>, <<255, 0, 255>>>>,
     <<<<"hsvToRgb", 54613, 255, 0>>, <<0, 0, 0>>>>,
     <<<<"hsvToRgb", 54613, 255, 1>>, <<1, 1, 1>>>>,
     <<<<"hsvToRgb", 54613, 255, 128>>, <<129, 129, 128>>>>,
     <<<<"hsvToRgb", 54613, 255, 254>>, <<255, 255, 255>>>>,
     <<<<"hsvToRgb", 54613, 255, 255>>, <<255, 255, 255>>>>,
     <<<<"hsvToRgb", 65535, 0, 0>>, <<0, 0, 0>>>>,
     <<<<"hsvToRgb", 65535, 0, 1>>, <<1, 1, 1>>>>,
     <<<<"hsvToRgb", 65535, 0, 128>>, <<129, 129, 129>>>>,
     <<<<"hsvToRgb", 65535, 0, 254>>, <<255, 255, 255>>>>,
     <<<<"hsvToRgb", 65535, 0, 255>>, <<255, 255, 255>>>>,
     <<<<"hsvToRgb", 65535, 127, 0>>, <<0, 0, 0>>>>,
     <<<<"hsvToRgb", 65535, 127, 1>>, <<1, 0, 0>>>>,
     <<<<"hsvToRgb", 65535, 127, 128>>, <<129, 64, 64>>>>,
     <<<<"hsvToRgb", 65535, 127, 254>>, <<255, 127, 127>>>>,
     <<<<"hsvToRgb", 65535, 127, 255>>, <<255, 128, 128>>>>,
     <<<<"hsvToRgb", 65535, 254, 0>>, <<0, 0, 0>>>>,
     <<<<"hsvToRgb", 65535, 254, 1>>, <<1, 0, 0>>>>,
     <<<<"hsvToRgb", 65535, 254, 128>>, <<129, 0, 0>>>>,
     <<<<"hsvToRgb", 65535, 254, 254>>, <<255, 0, 0>>>>,
     <<<<"hsvToRgb", 65535, 254, 255>>, <<255, 0, 0>>>>,
     <<<<"hsvToRgb", 65535, 255, 0>>, <<0, 0, 0>>>>,
     <<<<"hsvToRgb", 65535, 255, 1>>, <<1, 1, 1>>>>,
     <<<<"hsvToRgb", 65535, 255, 128>>, <<129, 129, 129>>>>,
     <<<<"hsvToRgb", 65535, 255, 254>>, <<255, 255, 255>>>>,
     <<<<"hsvToRgb", 65535, 255, 255>>, <<255, 255, 255>>>>,
     <<<<"rgbToHsv", 0, 0, 0>>, <<0, 0, 1>>>>,
     <<<<"rgbToHsv", 0, 0, 1>>, <<43690, 254, 1>>>>,
     <<<<"rgbToHsv", 0, 0, 127>>, <<43690, 254, 126>>>>,
     <<<<"rgbToHsv", 0, 0, 128>>, <<43690, 254, 127>>>>,
     <<<<"rgbToHsv", 0, 0, 129>>, <<43690, 254, 128>>>>,
     <<<<"rgbToHsv", 0, 0, 255>>, <<43690, 254, 254>>>>,
     <<<<"rgbToHsv", 0, 1, 0>>, <<21845, 254, 1>>>>,
     <<<<"rgbToHsv", 0, 1, 1>>, <<32767, 254, 1>>>>,
     <<<<"rgbToHsv", 0, 1, 127>>, <<43603, 254, 126>>>>,
     <<<<"rgbToHsv", 0, 1, 255>>, <<43647, 254, 254>>>>,
     <<<<"rgbToHsv", 0, 126, 0>>, <<21845, 254, 125>>>>,
     <<<<"rgbToHsv", 0, 128, 0>>, <<21845, 254, 127>>>>,
     <<<<"rgbToHsv", 0, 128, 129>>, <<32852, 254, 128>>>>,
     <<<<"rgbToHsv", 0, 129, 0>>, <<21845, 254, 128>>>>,
     <<<<"rgbToHsv", 0, 255, 0>>, <<21845, 254, 254>>>>,
     <<<<"rgbToHsv", 0, 255, 1>>, <<21887, 254, 254>>>>,
     <<<<"rgbToHsv", 0, 255, 127>>, <<27284, 254, 254>>>>,
     <<<<"rgbToHsv", 0, 255, 255>>, <<32767, 254, 254>>>>,
     <<<<"rgbToHsv", 1, 0, 0>>, <<0, 254, 1>>>>,
     <<<<"rgbToHsv", 1, 0, 1>>, <<54612, 254, 1>>>>,
     <<<<"rgbToHsv", 1, 0, 127>>, <<43776, 254, 126>>>>,
     <<<<"rgbToHsv", 1, 0, 255>>, <<43732, 254, 254>>>>,
     <<<<"rgbToHsv", 1, 1, 0>>, <<10922, 254, 1>>>>,
     <<<<"rgbToHsv", 1, 1, 1>>, <<0, 0, 1>>>>,
     <<<<"rgbToHsv", 1, 1, 2>>, <<43690, 127, 1>>>>,
     <<<<"rgbToHsv", 1, 1, 127>>, <<43690, 252, 126>>>>,
     <<<<"rgbToHsv", 1, 1, 128>>, <<43690, 252, 127>>>>,
     <<<<"rgbToHsv", 1, 1, 255>>, <<43690, 253, 254>>>>,
     <<<<"rgbToHsv", 1, 2, 1>>, <<21845, 127, 1>>>>,
     <<<<"rgbToHsv", 1, 255, 0>>, <<21802, 254, 254>>>>,
     <<<<"rgbToHsv", 1, 255, 1>>, <<21845, 253, 254>>>>,
     <<<<"rgbToHsv", 2, 2, 2>>, <<0, 0, 1>>>>,
     <<<<"rgbToHsv", 64, 0, 0>>, <<0, 254, 63>>>>,
     <<<<"rgbToHsv", 64, 64, 129>>, <<43690, 127, 128>>>>,
     <<<<"rgbToHsv", 64, 128, 64>>, <<21845, 127, 127>>>>,
     <<<<"rgbToHsv", 64, 128, 129>>, <<32935, 127, 128>>>>,
     <<<<"rgbToHsv", 64, 129, 64>>, <<21845, 127, 128>>>>,
     <<<<"rgbToHsv", 121, 62, 0>>, <<5596, 254, 120>>>>,
     <<<<"rgbToHsv", 126, 0, 0>>, <<0, 254, 125>>>>,
     <<<<"rgbToHsv", 126, 67, 6>>, <<5552, 241, 125>>>>,
     <<<<"rgbToHsv", 126, 126, 126>>, <<0, 0, 125>>>>,
     <<<<"rgbToHsv", 127, 0, 0>>, <<0, 254, 126>>>>,
     <<<<"rgbToHsv", 127, 0, 1>>, <<65448, 254, 126>>>>,
     <<<<"rgbToHsv", 127, 0, 127>>, <<54612, 254, 126>>>>,
     <<<<"rgbToHsv", 127, 0, 255>>, <<49129, 254, 254>>>>,
     <<<<"rgbToHsv", 127, 1, 0>>, <<86, 254, 126>>>>,
     <<<<"rgbToHsv", 127, 1, 1>>, <<0, 252, 126>>>>,
     <<<<"rgbToHsv", 127, 68, 6>>, <<5596, 242, 126>>>>,
     <<<<"rgbToHsv", 127, 127, 127>>, <<0, 0, 126>>>>,
     <<<<"rgbToHsv", 127, 127, 128>>, <<43690, 1, 127>>>>,
     <<<<"rgbToHsv", 127, 127, 254>>, <<43690, 127, 253>>>>,
     <<<<"rgbToHsv", 127, 127, 255>>, <<43690, 127, 254>>>>,
     <<<<"rgbToHsv", 127, 128, 127>>, <<21845, 1, 127>>>>,
     <<<<"rgbToHsv", 127, 128, 128>>, <<32767, 1, 127>>>>,
     <<<<"rgbToHsv", 127, 255, 0>>, <<16405, 254, 254>>>>,
     <<<<"rgbToHsv", 127, 255, 127>>, <<21845, 127, 254>>>>,
     <<<<"rgbToHsv", 127, 255, 255>>, <<32767, 127, 254>>>>,
     <<<<"rgbToHsv", 128, 0, 0>>, <<0, 254, 127>>>>,
     <<<<"rgbToHsv", 128, 1, 1>>, <<0, 252, 127>>>>,
     <<<<"rgbToHsv", 128, 63, 63>>, <<0, 128, 127>>>>,
     <<<<"rgbToHsv", 128, 64, 64>>, <<0, 127, 127>>>>,
     <<<<"rgbToHsv", 128, 67, 6>>, <<5461, 242, 127>>>>,
     <<<<"rgbToHsv", 128, 68, 6>>, <<5550, 242, 127>>>>,
     <<<<"rgbToHsv", 128, 127, 127>>, <<0, 1, 127>>>>,
     <<<<"rgbToHsv", 128, 128, 127>>, <<10922, 1, 127>>>>,
     <<<<"rgbToHsv", 128, 128, 128>>, <<0, 0, 127>>>>,
     <<<<"rgbToHsv", 128, 128, 129>>, <<43690, 1, 128>>>>,
     <<<<"rgbToHsv", 128, 128, 255>>, <<43690, 126, 254>>>>,
     <<<<"rgbToHsv", 128, 129, 0>>, <<11007, 254, 128>>>>,
     <<<<"rgbToHsv", 128, 129, 64>>, <<11090, 127, 128>>>>,
     <<<<"rgbToHsv", 128, 255, 128>>, <<21845, 126, 254>>>>,
     <<<<"rgbToHsv", 128, 255, 255>>, <<32767, 126, 254>>>>,
     <<<<"rgbToHsv", 129, 0, 0>>, <<0, 254, 128>>>>,
     <<<<"rgbToHsv", 129, 0, 128>>, <<54697, 254, 128>>>>,
     <<<<"rgbToHsv", 129, 64, 64>>, <<0, 127, 128>>>>,
     <<<<"rgbToHsv", 129, 64, 128>>, <<54780, 127, 128>>>>,
     <<<<"rgbToHsv", 129, 128, 128>>, <<0, 1, 128>>>>,
     <<<<"rgbToHsv", 129, 129, 129>>, <<0, 0, 128>>>>,
     <<<<"rgbToHsv", 129, 129, 130>>, <<43690, 1, 129>>>>,
     <<<<"rgbToHsv", 129, 255, 129>>, <<21845, 125, 254>>>>,
     <<<<"rgbToHsv", 129, 255, 255>>, <<32767, 125, 254>>>>,
     <<<<"rgbToHsv", 200, 0, 128>>, <<58544, 254, 199>>>>,
     <<<<"rgbToHsv", 241, 123, 0>>, <<5574, 254, 240>>>>,
     <<<<"rgbToHsv", 254, 127, 127>>, <<0, 127, 253>>>>,
     <<<<"rgbToHsv", 254, 136, 13>>, <<5574, 241, 253>>>>,
     <<<<"rgbToHsv", 254, 255, 255>>, <<32767, 0, 254>>>>,
     <<<<"rgbToHsv", 255, 0, 0>>, <<0, 254, 254>>>>,
     <<<<"rgbToHsv", 255, 0, 1>>, <<65492, 254, 254>>>>,
     <<<<"rgbToHsv", 255, 0, 127>>, <<60095, 254, 254>>>>,
     <<<<"rgbToHsv", 255, 0, 255>>, <<54612, 254, 254>>>>,
     <<<<"rgbToHsv", 255, 1, 0>>, <<42, 254, 254>>>>,
     <<<<"rgbToHsv", 255, 1, 1>>, <<0, 253, 254>>>>,
     <<<<"rgbToHsv", 255, 127, 127>>, <<0, 127, 254>>>>,
     <<<<"rgbToHsv", 255, 127, 255>>, <<54612, 127, 254>>>>,
     <<<<"rgbToHsv", 255, 128, 128>>, <<0, 126, 254>>>>,
     <<<<"rgbToHsv", 255, 128, 129>>, <<65448, 126, 254>>>>,
     <<<<"rgbToHsv", 255, 129, 129>>, <<0, 125, 254>>>>,
     <<<<"rgbToHsv", 255, 255, 0>>, <<10922, 254, 254>>>>,
     <<<<"rgbToHsv", 255, 255, 127>>, <<10922, 127, 254>>>>,
     <<<<"rgbToHsv", 255, 255, 128>>, <<10922, 126, 254>>>>,
     <<<<"rgbToHsv", 255, 255, 129>>, <<10922, 125, 254>>>>,
     <<<<"rgbToHsv", 255, 255, 254>>, <<10922, 0, 254>>>>,
     <<<<"rgbToHsv", 255, 255, 255>>, <<0, 0, 254>>>>}

Min(a, b) == IF a <= b THEN a ELSE b

Max(a, b) == IF a >= b THEN a ELSE b

\* the result of a call in ColorTable
ColorLookup(call) == (CHOOSE entry \in ColorTable : entry[1] = call)[2]

rgbToHsv(r, g, b) == ColorLookup(<<"rgbToHsv", r, g, b>>)

rgbwToHsv(r, g, b, w) ==
    rgbToHsv(Min(MAX_BRIGHTNESS, r + w), Min(MAX_BRIGHTNESS, g + w), Min(MAX_BRIGHTNESS, b + w))

hsvToRgb(hue, saturation, value) == ColorLookup(<<"hsvToRgb", hue, saturation, value>>)

\* static_cast<uint8_t>
Byte(n) == n % 256

\* an hsvToRgbw that takes the largest of r, g, b for white
hsvToRgbw_largest(hue, saturation, value) ==
    LET rgb == hsvToRgb(hue, saturation, value)
        w == Max(rgb[1], Max(rgb[2], rgb[3]))
    IN  <<Byte(rgb[1] - w), Byte(rgb[2] - w), Byte(rgb[3] - w), w>>

\* AsyncEspAlexaColorUtils::hsvToRgbw
hsvToRgbw(hue, saturation, value) ==
    LET rgb == hsvToRgb(hue, saturation, value)
        w == Min(rgb[1], Min(rgb[2], rgb[3]))
    IN  <<Byte(rgb[1] - w), Byte(rgb[2] - w), Byte(rgb[3] - w), w>>

ctToRgb(brightness, colorTemperature) == ColorLookup(<<"ctToRgb", brightness, colorTemperature>>)

ctToRgbw(brightness, colorTemperature) ==
    LET rgb == ctToRgb(brightness, colorTemperature)
        w == Min(rgb[1], Min(rgb[2], rgb[3]))
    IN  <<rgb[1] - w, rgb[2] - w, rgb[3] - w, w>>

ALEXA_MIN_BRI_VAL == 1

ALEXA_MAX_BRI_VAL == 254

\* AsyncEspAlexaDimmableDevice(name, on, brightness) with the brightness
\* callback createSingleChannelDevice gives it
DimmableDevice(name, on, brightness, color) ==
    [live |-> TRUE, type |-> "Dimmable light", name |-> name, id |-> 0, channels |-> {color},
     on |-> on, bri |-> brightness, hue |-> 0, sat |-> 0, ct |-> 0, colormode |-> "none"]

\* AsyncEspAlexaColorDevice(name, on, brightness, hue, saturation) with the
\* color callback of setupRgbDevice
ColorDevice(name, on, brightness, hue, saturation) ==
    [live |-> TRUE, type |-> "Color light", name |-> name, id |-> 0,
     channels |-> {Red, Green, Blue}, on |-> on, bri |-> brightness, hue |-> hue,
     sat |-> saturation, ct |-> 0, colormode |-> "hs"]

\* AsyncEspAlexaExtendedColorDevice(name, on, brightness, hue, saturation,
\* colorTemperature, mode) with the two callbacks of setupRgbwDevice
ExtendedColorDevice(name, on, brightness, hue, saturation, colorTemperature, mode) ==
    [live |-> TRUE, type |-> "Extended color light", name |-> name, id |-> 0,
     channels |-> Colors, on |-> on, bri |-> brightness, hue |-> hue, sat |-> saturation,
     ct |-> colorTemperature, colormode |-> mode]

\* new: the device takes the next address
New(a, device) == [a EXCEPT !.heap = Append(@, device)]

\* AsyncEspAlexaManager::addDevice
addDevice(a, ptr) ==
    [a EXCEPT !.heap[ptr].id = Len(a.registry) % 256, !.registry = Append(@, ptr)]

\* the place of a device after delete: nothing of it is left to rely on
Deleted == [DimmableDevice(NoName, FALSE, 0, Red) EXCEPT !.live = FALSE, !.channels = {}]

\* AsyncEspAlexaManager::deleteAllDevices
deleteAllDevices(a) ==
    [a EXCEPT !.heap = [i \in DOMAIN a.heap |->
                           IF \E j \in DOMAIN a.registry : a.registry[j] = i
                           THEN Deleted
                           ELSE a.heap[i]],
              !.registry = <<>>]

\* AlexaIntegration::clearDevices
clearDevices(a) == [deleteAllDevices(a) EXCEPT !.slots = [i \in Slots |-> NullPtr]]

\* AlexaIntegration::createSingleChannelDevice: the integration after the
\* call and the pointer returned
createSingleChannelDevice(a, name, color, ls) ==
    IF name = NoName
    THEN [a |-> a, ptr |-> NullPtr]
    ELSE LET b == New(a, DimmableDevice(name, Light_isOn(ls[color]), ls[color].value, color))
         IN  [a |-> b, ptr |-> Len(b.heap)]

\* AlexaIntegration::setupRgbwDevice
setupRgbwDevice(a, s, ls) ==
    LET hsv == rgbwToHsv(ls[Red].value, ls[Green].value, ls[Blue].value, ls[White].value)
        b == New(a, ExtendedColorDevice(s.deviceNames[Red], Manager_anyOn(ls), hsv[3],
                                        hsv[1], hsv[2], 500, "hs"))
        ptr == Len(b.heap)
    IN  addDevice([b EXCEPT !.slots[1] = ptr], ptr)

\* AlexaIntegration::setupRgbDevice
setupRgbDevice(a, s, ls) ==
    IF s.deviceNames[Red] = NoName
    THEN a
    ELSE LET hsv == rgbToHsv(ls[Red].value, ls[Green].value, ls[Blue].value)
             on == Light_isOn(ls[Red]) \/ Light_isOn(ls[Green]) \/ Light_isOn(ls[Blue])
             b == New(a, ColorDevice(s.deviceNames[Red], on, hsv[3], hsv[1], hsv[2]))
             ptr == Len(b.heap)
         IN  addDevice([b EXCEPT !.slots[1] = ptr], ptr)

\* AlexaIntegration::setupStandaloneDevice
setupStandaloneDevice(a, s, ls) ==
    LET made == createSingleChannelDevice(a, s.deviceNames[White], White, ls)
        b == [made.a EXCEPT !.slots[2] = made.ptr]
    IN  IF made.ptr # NullPtr THEN addDevice(b, made.ptr) ELSE b

\* AlexaIntegration::setupMultiDevice
setupMultiDevice(a, s, ls) ==
    LET r == createSingleChannelDevice(a, s.deviceNames[Red], Red, ls)
        g == createSingleChannelDevice(r.a, s.deviceNames[Green], Green, ls)
        b == createSingleChannelDevice(g.a, s.deviceNames[Blue], Blue, ls)
        w == createSingleChannelDevice(b.a, s.deviceNames[White], White, ls)
        a1 == IF r.ptr # NullPtr THEN addDevice(w.a, r.ptr) ELSE w.a
        a2 == IF g.ptr # NullPtr THEN addDevice(a1, g.ptr) ELSE a1
        a3 == IF b.ptr # NullPtr THEN addDevice(a2, b.ptr) ELSE a2
        a4 == IF w.ptr # NullPtr THEN addDevice(a3, w.ptr) ELSE a3
    IN  [a4 EXCEPT !.slots = <<r.ptr, g.ptr, b.ptr, w.ptr>>]

\* AlexaIntegration::setupDevices
setupDevices(a, s, ls) ==
    CASE s.integrationMode = "OFF" -> a
      [] s.integrationMode = "RGBW_DEVICE" -> setupRgbwDevice(a, s, ls)
      [] s.integrationMode = "RGB_DEVICE" ->
             setupStandaloneDevice(setupRgbDevice(a, s, ls), s, ls)
      [] s.integrationMode = "MULTI_DEVICE" -> setupMultiDevice(a, s, ls)

\* AlexaIntegration::updateDevice: the heap after the call
updateDevice(h, ptr, color, out) ==
    IF ptr = NullPtr
    THEN h
    ELSE [h EXCEPT ![ptr].on = out[color].on,
                   ![ptr].bri = Max(ALEXA_MIN_BRI_VAL, Min(ALEXA_MAX_BRI_VAL, out[color].value))]

\* AlexaIntegration::updateRgbwDevice; setColor of the extended color device
\* sets the mode as well
updateRgbwDevice(h, sl, out) ==
    IF sl[1] = NullPtr
    THEN h
    ELSE LET hsv == rgbwToHsv(out[Red].value, out[Green].value, out[Blue].value,
                              out[White].value)
         IN  [h EXCEPT ![sl[1]].on = \E c \in Colors : out[c].on,
                       ![sl[1]].hue = hsv[1],
                       ![sl[1]].sat = hsv[2],
                       ![sl[1]].colormode = "hs",
                       ![sl[1]].bri = hsv[3]]

\* AlexaIntegration::updateRgbDevice
updateRgbDevice(h, sl, out) ==
    IF sl[1] = NullPtr
    THEN h
    ELSE LET hsv == rgbToHsv(out[Red].value, out[Green].value, out[Blue].value)
         IN  [h EXCEPT ![sl[1]].on = out[Red].on \/ out[Green].on \/ out[Blue].on,
                       ![sl[1]].hue = hsv[1],
                       ![sl[1]].sat = hsv[2],
                       ![sl[1]].bri = hsv[3]]

\* AlexaIntegration::updateDevices
updateDevices(h, sl, s, out) ==
    CASE s.integrationMode = "OFF" -> h
      [] s.integrationMode = "RGBW_DEVICE" -> updateRgbwDevice(h, sl, out)
      [] s.integrationMode = "RGB_DEVICE" ->
             updateDevice(updateRgbDevice(h, sl, out), sl[2], White, out)
      [] s.integrationMode = "MULTI_DEVICE" ->
             updateDevice(updateDevice(updateDevice(updateDevice(h, sl[1], Red, out),
                                                    sl[2], Green, out),
                                       sl[3], Blue, out),
                          sl[4], White, out)

\* a handleStateUpdate of the extended color device that takes the color
\* temperature after hue and saturation
handleStateUpdate_ctLast(d, payload) ==
    LET switched == IF payload.on # Nullopt THEN [d EXCEPT !.on = payload.on[1]] ELSE d
        dimmed == IF payload.bri # Nullopt
                  THEN [switched EXCEPT !.bri = payload.bri[1]]
                  ELSE IF switched.on THEN [switched EXCEPT !.bri = 254] ELSE switched
        colored == IF d.type # "Dimmable light" /\ payload.hue # Nullopt /\ payload.sat # Nullopt
                   THEN [dimmed EXCEPT !.hue = payload.hue[1], !.sat = payload.sat[1],
                                       !.colormode = IF d.type = "Extended color light"
                                                     THEN "hs" ELSE @]
                   ELSE dimmed
    IN  IF d.type = "Extended color light" /\ payload.ct # Nullopt
        THEN [colored EXCEPT !.ct = payload.ct[1], !.colormode = "ct"]
        ELSE colored

\* handleStateUpdate of the device's class, down from AsyncEspAlexaDevice; a
\* field of the payload is there when it holds a value of the type asked for
handleStateUpdate(d, payload) ==
    LET switched == IF payload.on # Nullopt THEN [d EXCEPT !.on = payload.on[1]] ELSE d
        dimmed == IF payload.bri # Nullopt
                  THEN [switched EXCEPT !.bri = payload.bri[1]]
                  ELSE IF switched.on THEN [switched EXCEPT !.bri = 254] ELSE switched
        tuned == IF d.type = "Extended color light" /\ payload.ct # Nullopt
                 THEN [dimmed EXCEPT !.ct = payload.ct[1], !.colormode = "ct"]
                 ELSE dimmed
    IN  IF d.type # "Dimmable light" /\ payload.hue # Nullopt /\ payload.sat # Nullopt
        THEN [tuned EXCEPT !.hue = payload.hue[1], !.sat = payload.sat[1],
                           !.colormode = IF d.type = "Extended color light"
                                         THEN "hs" ELSE @]
        ELSE tuned

\* AlexaIntegration::handleSingleChannelCommand: the lights after the call
handleSingleChannelCommand(ls, color, isOn, brightness) ==
    Manager_setValue(Manager_setOn(ls, isOn, color),
                     (IF brightness < 128 THEN brightness ELSE brightness + 1) % 256, color)

\* a handleRgbCommand that ends with the four setOn calls of handleRgbwCommand
handleRgbCommand_allChannels(ls, isOn, brightness, hue, saturation) ==
    LET rgb == hsvToRgb(hue, saturation, brightness)
        colored == Manager_setColor3(ls, rgb[1], rgb[2], rgb[3])
    IN  Manager_setOn(Manager_setOn(Manager_setOn(Manager_setOn(colored, isOn, Red),
                                                  isOn, Green),
                                    isOn, Blue),
                      isOn, White)

\* AlexaIntegration::handleRgbCommand
handleRgbCommand(ls, isOn, brightness, hue, saturation) ==
    LET rgb == hsvToRgb(hue, saturation, brightness)
        colored == Manager_setColor3(ls, rgb[1], rgb[2], rgb[3])
    IN  Manager_setOn(Manager_setOn(Manager_setOn(colored, isOn, Red), isOn, Green), isOn, Blue)

\* the four setOn calls that end both handleRgbwCommand overloads
setOnEach(ls, isOn) ==
    Manager_setOn(Manager_setOn(Manager_setOn(Manager_setOn(ls, isOn, Red), isOn, Green),
                                isOn, Blue),
                  isOn, White)

\* a handleRgbwCommand that drives red, green and blue and leaves white alone
handleRgbwCommand_rgbOnly(ls, isOn, brightness, hue, saturation) ==
    LET rgb == hsvToRgb(hue, saturation, brightness)
    IN  setOnEach(Manager_setColor3(ls, rgb[1], rgb[2], rgb[3]), isOn)

\* AlexaIntegration::handleRgbwCommand(isOn, brightness, hue, saturation)
handleRgbwCommand(ls, isOn, brightness, hue, saturation) ==
    LET rgbw == hsvToRgbw(hue, saturation, brightness)
    IN  setOnEach(Manager_setColor4(ls, rgbw[1], rgbw[2], rgbw[3], rgbw[4]), isOn)

\* AlexaIntegration::handleRgbwCommand(isOn, brightness, colorTemperature)
handleRgbwCtCommand(ls, isOn, brightness, colorTemperature) ==
    LET rgbw == ctToRgbw(brightness, colorTemperature)
    IN  setOnEach(Manager_setColor4(ls, rgbw[1], rgbw[2], rgbw[3], rgbw[4]), isOn)

\* callAfterStateUpdateCallback of the device's class: the callbacks that are
\* set, in the order they run, and the lights after them
callAfterStateUpdateCallback(d, ls) ==
    CASE d.type = "Dimmable light" ->
             [callbacks |-> <<"brightness">>,
              lights |-> handleSingleChannelCommand(ls, CHOOSE c \in d.channels : TRUE,
                                                    d.on, d.bri)]
      [] d.type = "Color light" ->
             [callbacks |-> <<"color">>,
              lights |-> handleRgbCommand(ls, d.on, d.bri, d.hue, d.sat)]
      [] d.type = "Extended color light" ->
             IF d.colormode = "ct"
             THEN [callbacks |-> <<"colorTemperature">>,
                   lights |-> handleRgbwCtCommand(ls, d.on, d.bri, d.ct)]
             ELSE [callbacks |-> <<"color">>,
                   lights |-> handleRgbwCommand(ls, d.on, d.bri, d.hue, d.sat)]

\* a | b for two unsigned numbers
RECURSIVE BitOr(_, _)
BitOr(a, b) ==
    IF a = 0 THEN b
    ELSE IF b = 0 THEN a
    ELSE (IF a % 2 = 1 \/ b % 2 = 1 THEN 1 ELSE 0) + 2 * BitOr(a \div 2, b \div 2)

\* AsyncEspAlexaDevice::encodeLightKey on a device whose getMac24() is mac:
\* 24 bits shifted by 7 stay within 32
encodeLightKey(mac, idx) == BitOr(mac * 128, idx)

\* AsyncEspAlexaDevice::decodeLightKey
decodeLightKey(mac, key) == IF key \div 128 = mac THEN key % 128 ELSE 255

\* a handleRequestWithBody that takes the last device for an index too high
handleRequestWithBody_lastDevice(a, ls, mac, key, payload) ==
    LET idx == decodeLightKey(mac, key)
    IN  IF a.registry = <<>>
        THEN [status |-> 404, error |-> "Device not found", heap |-> a.heap, lights |-> ls,
              device |-> NullPtr, callbacks |-> <<>>]
        ELSE LET dev == a.registry[Min(idx + 1, Len(a.registry))]
                 d == handleStateUpdate(a.heap[dev], payload)
                 called == callAfterStateUpdateCallback(d, ls)
             IN  [status |-> 200, error |-> "", heap |-> [a.heap EXCEPT ![dev] = d],
                  lights |-> called.lights, device |-> dev, callbacks |-> called.callbacks]

\* AsyncEspAlexaWebHandler::handleRequestWithBody for a URL with "state" and
\* a JSON body without "devicetype": the answer, and the heap and the lights
\* after the call
handleRequestWithBody(a, ls, mac, key, payload) ==
    LET idx == decodeLightKey(mac, key)
    IN  IF idx >= Len(a.registry)
        THEN [status |-> 404, error |-> "Device not found", heap |-> a.heap, lights |-> ls,
              device |-> NullPtr, callbacks |-> <<>>]
        ELSE LET dev == a.registry[idx + 1]
                 d == handleStateUpdate(a.heap[dev], payload)
                 called == callAfterStateUpdateCallback(d, ls)
             IN  [status |-> 200, error |-> "", heap |-> [a.heap EXCEPT ![dev] = d],
                  lights |-> called.lights, device |-> dev, callbacks |-> called.callbacks]

\* AsyncEspAlexaWebHandler::handleLightsRequest: id 0 lists the devices
handleLightsRequest(a, mac, key) ==
    IF key = 0
    THEN [status |-> 200, error |-> "", device |-> NullPtr]
    ELSE LET idx == decodeLightKey(mac, key)
         IN  IF idx < Len(a.registry)
             THEN [status |-> 200, error |-> "", device |-> a.registry[idx + 1]]
             ELSE [status |-> 404, error |-> "Device not found", device |-> NullPtr]

\* the integration at hand
Alexa == [heap |-> heap, registry |-> registry, slots |-> slots]

\* device names as a BLE or WebSocket client writes them
Names(r, g, b, w) == [c \in Colors |-> CASE c = Red -> r [] c = Green -> g
                                          [] c = Blue -> b [] c = White -> w]

SettingsInputs ==
    {DefaultSettings,
     [integrationMode |-> "RGBW_DEVICE", deviceNames |-> Names("Lamp", NoName, NoName, NoName)],
     [integrationMode |-> "RGB_DEVICE", deviceNames |-> Names("Kitchen", NoName, NoName, "Lamp")],
     [integrationMode |-> "RGB_DEVICE", deviceNames |-> Names(NoName, NoName, NoName, "Lamp")],
     [integrationMode |-> "MULTI_DEVICE", deviceNames |-> Names("R", NoName, "B", "W")]}

\* bodies of state requests
PayloadInputs ==
    {[NoPayload EXCEPT !.on = <<TRUE>>],
     [NoPayload EXCEPT !.on = <<FALSE>>],
     [NoPayload EXCEPT !.bri = <<127>>],
     [NoPayload EXCEPT !.hue = <<21845>>, !.sat = <<254>>],
     [NoPayload EXCEPT !.hue = <<21845>>],
     [NoPayload EXCEPT !.ct = <<500>>]}

\* the bridge that made the id of a request, by its hardware id, and the
\* device index it encoded
KeyInputs(mac) == {<<mac, 0>>, <<mac, 1>>, <<mac, 127>>, <<1, 0>>, <<0, 0>>}

OUTPUT_STATE_UPDATE_INTERVAL_MS == 500

\* as far as millis() gets: one interval of AlexaIntegration::handle
AlexaMaxTime == OUTPUT_STATE_UPDATE_INTERVAL_MS

\* millis() advances
AlexaAdvance ==
    /\ clock + TimeStep <= AlexaMaxTime
    /\ clock' = clock + TimeStep
    /\ request' = NoRequest
    /\ UNCHANGED <<raceVars, lights, prefs, changes, idleVars, persistVars, settings, alexaPrefs, heap,
                   registry, slots, alexaOutputState, lastOutputStateUpdate, webServer, mac24,
                   begins, applies, requests>>

\* beginAlexaAndWebServer: AlexaIntegration::begin, then the HTTP server
\* starts with the handler on the manager's devices
Began ==
    /\ begins' = begins + 1
    /\ settings' = alexaPrefs
    /\ LET a == setupDevices(Alexa, alexaPrefs, lights)
       IN  /\ heap' = a.heap
           /\ registry' = a.registry
           /\ slots' = a.slots
    /\ alexaOutputState' = Manager_getState(lights)
    /\ webServer' = TRUE
    /\ request' = NoRequest
    /\ UNCHANGED <<raceVars, lights, prefs, clock, changes, idleVars, persistVars, alexaPrefs,
                   lastOutputStateUpdate, mac24, applies, requests>>

\* ARDUINO_EVENT_WIFI_STA_GOT_IP: WiFiManager calls the got-IP callback
AlexaBegin ==
    /\ begins + applies + requests < MaxEvents
    /\ Began

\* AlexaIntegration::applySettings, from AlexaCallback::onWrite or
\* handleAlexaIntegrationSettingsMessage
AlexaApplySettings(s) ==
    /\ begins + applies + requests < MaxEvents
    /\ applies' = applies + 1
    /\ settings' = s
    /\ alexaPrefs' = s
    /\ LET a == setupDevices(clearDevices(Alexa), s, lights)
       IN  /\ heap' = a.heap
           /\ registry' = a.registry
           /\ slots' = a.slots
    /\ request' = NoRequest
    /\ UNCHANGED <<raceVars, lights, prefs, clock, changes, idleVars, persistVars, alexaOutputState,
                   lastOutputStateUpdate, webServer, mac24, begins, requests>>

\* loop(): AlexaIntegration::handle(now) when the interval is over
AlexaHandle ==
    /\ ~ULongLess(ULongSub(clock, lastOutputStateUpdate), OUTPUT_STATE_UPDATE_INTERVAL_MS)
    /\ lastOutputStateUpdate' = clock
    /\ IF alexaOutputState # Manager_getState(lights)
       THEN /\ alexaOutputState' = Manager_getState(lights)
            /\ heap' = updateDevices(heap, slots, settings, Manager_getState(lights))
       ELSE UNCHANGED <<alexaOutputState, heap>>
    /\ request' = NoRequest
    /\ UNCHANGED <<raceVars, lights, prefs, clock, changes, idleVars, persistVars, settings, alexaPrefs,
                   registry, slots, webServer, mac24, begins, applies, requests>>

\* a PUT .../lights/<id>/state with a JSON body, the id made by a bridge
\* whose hardware id is from for its device index
Put(from, index, payload) ==
    /\ webServer
    /\ requests' = requests + 1
    /\ LET key == encodeLightKey(from, index)
           r == handleRequestWithBody(Alexa, lights, mac24, key, payload)
       IN  /\ heap' = r.heap
           /\ lights' = r.lights
           /\ request' = [kind |-> "put", from |-> from, index |-> index, key |-> key,
                          idx |-> decodeLightKey(mac24, key), status |-> r.status,
                          error |-> r.error, payload |-> payload, device |-> r.device,
                          callbacks |-> r.callbacks, heap |-> heap,
                          lights |-> Manager_getState(lights)]
    /\ UNCHANGED <<raceVars, prefs, clock, changes, idleVars, persistVars, settings, alexaPrefs, registry,
                   slots, alexaOutputState, lastOutputStateUpdate, webServer, mac24, begins,
                   applies>>

AlexaPut(from, index, payload) ==
    /\ begins + applies + requests < MaxEvents
    /\ Put(from, index, payload)

\* a GET .../lights/<id>
AlexaGet(from, index) ==
    /\ webServer
    /\ LET key == encodeLightKey(from, index)
           r == handleLightsRequest(Alexa, mac24, key)
       IN  request' = [kind |-> "get", from |-> from, index |-> index, key |-> key,
                       idx |-> decodeLightKey(mac24, key), status |-> r.status,
                       error |-> r.error, payload |-> NoPayload, device |-> r.device,
                       callbacks |-> <<>>, heap |-> heap,
                       lights |-> Manager_getState(lights)]
    /\ UNCHANGED <<raceVars, lights, prefs, clock, changes, idleVars, persistVars, settings, alexaPrefs,
                   heap, registry, slots, alexaOutputState, lastOutputStateUpdate, webServer,
                   mac24, begins, applies, requests>>

\* after setup(): the lights restored, Alexa settings stored by an earlier
\* run or none
InitAlexa ==
    /\ prefs \in {[c \in Colors |-> DefaultState],
                  [c \in Colors |-> LightState(c # White, 128)]}
    /\ lights = Manager_begin([c \in Colors |-> NewLight], prefs)
    /\ started = TRUE
    /\ opCount = 0
    /\ lastOp = [op |-> "none", colors |-> {}, pre |-> [c \in Colors |-> DefaultState]]
    /\ config = "controller"
    /\ KindInit
    /\ PersistInit
    /\ NotifyInit
    /\ AlexaConstructed
    /\ alexaPrefs \in {DefaultSettings,
                       [integrationMode |-> "RGB_DEVICE",
                        deviceNames |-> Names("Kitchen", NoName, NoName, "Lamp")]}
    /\ mac24 = 11259375

NextAlexa ==
    \/ AlexaAdvance
    \/ AlexaBegin
    \/ \E s \in SettingsInputs : AlexaApplySettings(s)
    \/ AlexaHandle
    \/ \E k \in KeyInputs(mac24), payload \in PayloadInputs : AlexaPut(k[1], k[2], payload)
    \/ \E k \in KeyInputs(mac24) : AlexaGet(k[1], k[2])

SpecAlexa == InitAlexa /\ [][NextAlexa]_vars

(***************************************************************************)
(* The light keys of the web handler's requests, over every device index   *)
(* and every count of devices a uint8_t index can address.                 *)
(***************************************************************************)
\* the devices the manager's vector holds at most in a run
MaxRegistry == 256

\* the index a key carries
Indexes == 0 .. 127

\* the station gets an IP address, again
KeyBegin ==
    /\ Len(registry) < MaxRegistry
    /\ Began

\* a state request with an id another bridge made
KeyPut(from, index) ==
    /\ from # mac24
    /\ requests = 0
    /\ Put(from, index, [NoPayload EXCEPT !.bri = <<127>>])

\* setup() with stored settings of FourIndependent, every name set
InitKey ==
    /\ prefs = [c \in Colors |-> DefaultState]
    /\ lights = Manager_begin([c \in Colors |-> NewLight], prefs)
    /\ started = TRUE
    /\ opCount = 0
    /\ lastOp = [op |-> "none", colors |-> {}, pre |-> [c \in Colors |-> DefaultState]]
    /\ config = "controller"
    /\ KindInit
    /\ PersistInit
    /\ NotifyInit
    /\ AlexaConstructed
    /\ alexaPrefs = [integrationMode |-> "MULTI_DEVICE", deviceNames |-> Names("R", "G", "B", "W")]
    /\ mac24 \in HardwareIds

NextKey ==
    \/ KeyBegin
    \/ \E from \in HardwareIds, index \in {0, 127} : AlexaGet(from, index)
    \/ \E from \in HardwareIds, index \in {0, 127} : KeyPut(from, index)

SpecKey == InitKey /\ [][NextKey]_vars

(***************************************************************************)
(* applySettings on the BLE host task, next to loop() and to the HTTP      *)
(* handler on the async TCP task: each reads and writes the integration    *)
(* without a lock, so a task's steps come between another's.               *)
(***************************************************************************)
\* undefined behaviour: the program goes on with its memory as it is, or stops
Undefined(what) ==
    /\ fault' = what
    /\ halted' \in BOOLEAN

\* the slots updateDevices reads under a mode
SlotsOf(mode) ==
    CASE mode = "OFF" -> {}
      [] mode = "RGBW_DEVICE" -> {1}
      [] mode = "RGB_DEVICE" -> {1, 2}
      [] mode = "MULTI_DEVICE" -> Slots

\* millis() advances
RaceAdvance ==
    /\ ~halted
    /\ clock + TimeStep <= AlexaMaxTime
    /\ clock' = clock + TimeStep
    /\ UNCHANGED <<lights, prefs, changes, idleVars, persistVars, alexaVars>>

\* loop(): boardButton.handle(now) with a short press, Manager::toggleAll
RaceToggleAll ==
    /\ ~halted
    /\ loopPc = "idle"
    /\ changes < MaxChanges
    /\ changes' = changes + 1
    /\ lights' = Manager_toggleAll(lights)
    /\ UNCHANGED <<prefs, clock, idleVars, persistVars, alexaVars>>

\* applySettings: this->settings = settings; savePreferences()
RaceApplyStart(s) ==
    /\ ~halted
    /\ applyPc = "idle"
    /\ begins + applies + requests < MaxEvents
    /\ applies' = applies + 1
    /\ settings' = s
    /\ alexaPrefs' = s
    /\ applyPc' = "delete"
    /\ UNCHANGED <<lights, prefs, clock, changes, idleVars, persistVars, heap, registry, slots,
                   alexaOutputState, lastOutputStateUpdate, webServer, mac24, request, begins,
                   requests, loopPc, loopMode, loopPtrs, httpPc, httpPtr, slotsMode, fault,
                   halted>>

\* clearDevices: espAlexaManager.deleteAllDevices()
RaceApplyDelete ==
    /\ ~halted
    /\ applyPc = "delete"
    /\ LET a == deleteAllDevices(Alexa)
       IN  /\ heap' = a.heap
           /\ registry' = a.registry
    /\ applyPc' = "reset"
    /\ UNCHANGED <<lights, prefs, clock, changes, idleVars, persistVars, settings, alexaPrefs,
                   slots, alexaOutputState, lastOutputStateUpdate, webServer, mac24, request,
                   begins, applies, requests, loopPc, loopMode, loopPtrs, httpPc, httpPtr,
                   slotsMode, fault, halted>>

\* clearDevices: devices = {}
RaceApplyReset ==
    /\ ~halted
    /\ applyPc = "reset"
    /\ slots' = [i \in Slots |-> NullPtr]
    /\ applyPc' = "setup"
    /\ UNCHANGED <<lights, prefs, clock, changes, idleVars, persistVars, settings, alexaPrefs,
                   heap, registry, alexaOutputState, lastOutputStateUpdate, webServer, mac24,
                   request, begins, applies, requests, loopPc, loopMode, loopPtrs, httpPc,
                   httpPtr, slotsMode, fault, halted>>

\* applySettings: setupDevices()
RaceApplySetup ==
    /\ ~halted
    /\ applyPc = "setup"
    /\ LET a == setupDevices(Alexa, settings, lights)
       IN  /\ heap' = a.heap
           /\ registry' = a.registry
           /\ slots' = a.slots
    /\ slotsMode' = settings.integrationMode
    /\ applyPc' = "idle"
    /\ UNCHANGED <<lights, prefs, clock, changes, idleVars, persistVars, settings, alexaPrefs,
                   alexaOutputState, lastOutputStateUpdate, webServer, mac24, request, begins,
                   applies, requests, loopPc, loopMode, loopPtrs, httpPc, httpPtr, fault,
                   halted>>

\* AlexaIntegration::handle(now) up to the switch of updateDevices
RaceLoopSwitch ==
    /\ ~halted
    /\ loopPc = "idle"
    /\ ~ULongLess(ULongSub(clock, lastOutputStateUpdate), OUTPUT_STATE_UPDATE_INTERVAL_MS)
    /\ lastOutputStateUpdate' = clock
    /\ IF alexaOutputState # Manager_getState(lights)
       THEN /\ alexaOutputState' = Manager_getState(lights)
            /\ loopMode' = settings.integrationMode
            /\ loopPc' = IF settings.integrationMode = "OFF" THEN "idle" ELSE "read"
       ELSE UNCHANGED <<alexaOutputState, loopMode, loopPc>>
    /\ UNCHANGED <<lights, prefs, clock, changes, idleVars, persistVars, settings, alexaPrefs,
                   heap, registry, slots, webServer, mac24, request, begins, applies, requests,
                   applyPc, loopPtrs, httpPc, httpPtr, slotsMode, fault, halted>>

\* updateRgbwDevice, updateRgbDevice, updateStandaloneDevice or
\* updateMultiDevices read the pointers of the union under the mode of the
\* switch; a pointer made under another mode points to another class
RaceLoopRead ==
    /\ ~halted
    /\ loopPc = "read"
    /\ loopPtrs' = [i \in Slots |-> IF i \in SlotsOf(loopMode) THEN slots[i] ELSE NullPtr]
    /\ IF \E i \in SlotsOf(loopMode) : slots[i] # NullPtr /\ slotsMode # loopMode
       THEN /\ Undefined("pointer of another mode")
            /\ loopPc' = "idle"
       ELSE /\ loopPc' = "use"
            /\ UNCHANGED <<fault, halted>>
    /\ UNCHANGED <<lights, prefs, clock, changes, idleVars, persistVars, settings, alexaPrefs,
                   heap, registry, slots, alexaOutputState, lastOutputStateUpdate, webServer,
                   mac24, request, begins, applies, requests, applyPc, loopMode, httpPc,
                   httpPtr, slotsMode>>

\* the setOn, setColor and setBrightness calls on the pointers read
RaceLoopUse ==
    /\ ~halted
    /\ loopPc = "use"
    /\ IF \E i \in Slots : loopPtrs[i] # NullPtr /\ ~heap[loopPtrs[i]].live
       THEN /\ Undefined("deleted device")
            /\ UNCHANGED heap
       ELSE /\ heap' = updateDevices(heap, loopPtrs, [integrationMode |-> loopMode],
                                     alexaOutputState)
            /\ UNCHANGED <<fault, halted>>
    /\ loopPc' = "idle"
    /\ UNCHANGED <<lights, prefs, clock, changes, idleVars, persistVars, settings, alexaPrefs,
                   registry, slots, alexaOutputState, lastOutputStateUpdate, webServer, mac24,
                   request, begins, applies, requests, applyPc, loopMode, loopPtrs, httpPc,
                   httpPtr, slotsMode>>

\* handleRequestWithBody: idx < devices.size(), dev = devices[idx]
RaceHttpRead(index) ==
    /\ ~halted
    /\ httpPc = "idle"
    /\ webServer
    /\ begins + applies + requests < MaxEvents
    /\ index < Len(registry)
    /\ requests' = requests + 1
    /\ httpPtr' = registry[index + 1]
    /\ httpPc' = "use"
    /\ UNCHANGED <<lights, prefs, clock, changes, idleVars, persistVars, settings, alexaPrefs,
                   heap, registry, slots, alexaOutputState, lastOutputStateUpdate, webServer,
                   mac24, request, begins, applies, applyPc, loopPc, loopMode, loopPtrs,
                   slotsMode, fault, halted>>

\* handleRequestWithBody: dev->handleStateUpdate, dev->callAfterStateUpdateCallback
RaceHttpUse(payload) ==
    /\ ~halted
    /\ httpPc = "use"
    /\ IF ~heap[httpPtr].live
       THEN /\ Undefined("deleted device")
            /\ UNCHANGED <<heap, lights>>
       ELSE LET d == handleStateUpdate(heap[httpPtr], payload)
            IN  /\ heap' = [heap EXCEPT ![httpPtr] = d]
                /\ lights' = callAfterStateUpdateCallback(d, lights).lights
                /\ UNCHANGED <<fault, halted>>
    /\ httpPc' = "idle"
    /\ httpPtr' = NullPtr
    /\ UNCHANGED <<prefs, clock, changes, idleVars, persistVars, settings, alexaPrefs, registry,
                   slots, alexaOutputState, lastOutputStateUpdate, webServer, mac24, request,
                   begins, applies, requests, applyPc, loopPc, loopMode, loopPtrs, slotsMode>>

\* setup() and the first got-IP event are over: begin() has made the devices
\* of the stored settings
InitRace ==
    /\ prefs = [c \in Colors |-> LightState(c # White, 128)]
    /\ lights = Manager_begin([c \in Colors |-> NewLight], prefs)
    /\ started = TRUE
    /\ opCount = 0
    /\ lastOp = [op |-> "none", colors |-> {}, pre |-> [c \in Colors |-> DefaultState]]
    /\ config = "controller"
    /\ KindInit
    /\ PersistInit
    /\ NotifyInit
    /\ alexaPrefs \in {[integrationMode |-> "RGBW_DEVICE",
                        deviceNames |-> Names("Lamp", NoName, NoName, NoName)],
                       [integrationMode |-> "RGB_DEVICE",
                        deviceNames |-> Names("Kitchen", NoName, NoName, "Lamp")]}
    /\ settings = alexaPrefs
    /\ LET a == setupDevices([heap |-> <<>>, registry |-> <<>>,
                              slots |-> [i \in Slots |-> NullPtr]], alexaPrefs, lights)
       IN  /\ heap = a.heap
           /\ registry = a.registry
           /\ slots = a.slots
    /\ alexaOutputState = Manager_getState(lights)
    /\ lastOutputStateUpdate = 0
    /\ webServer = TRUE
    /\ mac24 = 11259375
    /\ request = NoRequest
    /\ begins = 1
    /\ applies = 0
    /\ requests = 0
    /\ applyPc = "idle"
    /\ loopPc = "idle"
    /\ loopMode = "OFF"
    /\ loopPtrs = [i \in Slots |-> NullPtr]
    /\ httpPc = "idle"
    /\ httpPtr = NullPtr
    /\ slotsMode = alexaPrefs.integrationMode
    /\ fault = "none"
    /\ halted = FALSE

NextRace ==
    \/ RaceAdvance
    \/ RaceToggleAll
    \/ \E s \in SettingsInputs : RaceApplyStart(s)
    \/ RaceApplyDelete
    \/ RaceApplyReset
    \/ RaceApplySetup
    \/ RaceLoopSwitch
    \/ RaceLoopRead
    \/ RaceLoopUse
    \/ \E index \in {0, 1} : RaceHttpRead(index)
    \/ RaceHttpUse([NoPayload EXCEPT !.bri = <<127>>])

SpecRace == InitRace /\ [][NextRace]_vars

(***************************************************************************)
(* loop() polling OutputState for the Alexa devices, while clients change  *)
(* the lights, the station reconnects, settings are applied and Alexa      *)
(* sends commands.                                                         *)
(***************************************************************************)
\* as far as millis() gets: three intervals of AlexaIntegration::handle
PollMaxTime == 3 * OUTPUT_STATE_UPDATE_INTERVAL_MS

\* AlexaIntegration::handle(now): lastOutputStateUpdate, outputState and the
\* devices after the call, whether it compared and whether it found a
\* difference
Alexa_handle(now, last, snapshot, h, sl, s, out) ==
    IF ~ULongLess(ULongSub(now, last), OUTPUT_STATE_UPDATE_INTERVAL_MS)
    THEN IF snapshot # out
         THEN [lastOutputStateUpdate |-> now, outputState |-> out,
               heap |-> updateDevices(h, sl, s, out), compared |-> TRUE, found |-> TRUE]
         ELSE [lastOutputStateUpdate |-> now, outputState |-> snapshot, heap |-> h,
               compared |-> TRUE, found |-> FALSE]
    ELSE [lastOutputStateUpdate |-> last, outputState |-> snapshot, heap |-> h,
          compared |-> FALSE, found |-> FALSE]

\* the lights after a step; OutputState changed now when they differ
Lit(ls) ==
    /\ lights' = ls
    /\ outputChangedAt' = IF Manager_getState(ls) # Manager_getState(lights)
                          THEN clock ELSE outputChangedAt

\* the inputs taken so far
PollEvents == begins + applies + requests + changes

\* what the steps of this part leave alone
pollRest == <<quietVars, gates, blobVars, persistVars, raceVars, extraVars, prefs, mac24>>

\* one iteration of loop(), a tick after the last: now = millis(), then
\* alexaIntegration.handle(now)
PollLoop ==
    /\ clock + TimeStep <= PollMaxTime
    /\ clock' = clock + TimeStep
    /\ LET r == Alexa_handle(clock', lastOutputStateUpdate, alexaOutputState, heap, slots,
                             settings, Manager_getState(lights))
       IN  /\ lastOutputStateUpdate' = r.lastOutputStateUpdate
           /\ alexaOutputState' = r.outputState
           /\ heap' = r.heap
           /\ polled' = IF r.compared
                        THEN [compared |-> TRUE, now |-> clock',
                              previous |-> lastOutputStateUpdate, found |-> r.found,
                              state |-> Manager_getState(lights),
                              out |-> r.outputState, heap |-> r.heap, registry |-> registry,
                              settings |-> settings]
                        ELSE polled
    /\ request' = NoRequest
    /\ UNCHANGED <<pollRest, lights, outputChangedAt, changes, settings, alexaPrefs, registry,
                   slots, webServer, begins, applies, requests>>

\* a WebSocket color message or a BLE write: setState
PollSetState(state) ==
    /\ PollEvents < MaxEvents
    /\ changes' = changes + 1
    /\ Lit(Manager_setState(lights, state))
    /\ request' = NoRequest
    /\ UNCHANGED <<pollRest, clock, polled, settings, alexaPrefs, heap, registry, slots,
                   alexaOutputState, lastOutputStateUpdate, webServer, begins, applies,
                   requests>>

\* ARDUINO_EVENT_WIFI_STA_GOT_IP: beginAlexaAndWebServer
PollBegin ==
    /\ PollEvents < MaxEvents
    /\ Began

\* AlexaIntegration::applySettings
PollApplySettings(s) ==
    /\ PollEvents < MaxEvents
    /\ AlexaApplySettings(s)

\* a PUT .../lights/<id>/state for the device at index
PollPut(index, payload) ==
    /\ PollEvents < MaxEvents
    /\ webServer
    /\ requests' = requests + 1
    /\ LET key == encodeLightKey(mac24, index)
           r == handleRequestWithBody(Alexa, lights, mac24, key, payload)
       IN  /\ heap' = r.heap
           /\ Lit(r.lights)
           /\ request' = [kind |-> "put", from |-> mac24, index |-> index, key |-> key,
                          idx |-> decodeLightKey(mac24, key), status |-> r.status,
                          error |-> r.error, payload |-> payload, device |-> r.device,
                          callbacks |-> r.callbacks, heap |-> heap,
                          lights |-> Manager_getState(lights)]
    /\ UNCHANGED <<pollRest, clock, polled, changes, settings, alexaPrefs, registry, slots,
                   alexaOutputState, lastOutputStateUpdate, webServer, begins, applies>>

\* ColorPlusWhite with the color device 'Kitchen' and the white device 'Lamp'
KitchenLamp ==
    [integrationMode |-> "RGB_DEVICE", deviceNames |-> Names("Kitchen", NoName, NoName, "Lamp")]

\* ExtendedColor with the one device 'Lamp'
ExtendedLamp ==
    [integrationMode |-> "RGBW_DEVICE", deviceNames |-> Names("Lamp", NoName, NoName, NoName)]

\* FourIndependent with a device for red and one for white
RedWhite ==
    [integrationMode |-> "MULTI_DEVICE", deviceNames |-> Names("R", NoName, NoName, "W")]

PollSettings == {KitchenLamp, ExtendedLamp, RedWhite}

\* red at 255, green and blue at 0, white at 128, every channel on
RedAndWhite ==
    [c \in Colors |-> LightState(TRUE, CASE c = Red -> 255 [] c = White -> 128 [] OTHER -> 0)]

\* OutputState as clients set it
PollStates ==
    {RedAndWhite, [c \in Colors |-> DefaultState], [c \in Colors |-> LightState(c = White, 255)]}

\* bodies of Alexa's commands
PollPayloads ==
    {[NoPayload EXCEPT !.on = <<TRUE>>, !.hue = <<21845>>, !.sat = <<254>>],
     [NoPayload EXCEPT !.on = <<FALSE>>],
     [NoPayload EXCEPT !.bri = <<127>>]}

\* after setup(): the lights restored off, Alexa settings stored by an
\* earlier run, the station not connected yet
InitPoll ==
    /\ prefs = [c \in Colors |-> DefaultState]
    /\ lights = Manager_begin([c \in Colors |-> NewLight], prefs)
    /\ started = TRUE
    /\ opCount = 0
    /\ lastOp = [op |-> "none", colors |-> {}, pre |-> [c \in Colors |-> DefaultState]]
    /\ config = "controller"
    /\ KindInit
    /\ PersistInit
    /\ NotifyInit
    /\ AlexaConstructed
    /\ alexaPrefs \in PollSettings
    /\ mac24 = 11259375

NextPoll ==
    \/ PollLoop
    \/ \E state \in PollStates : PollSetState(state)
    \/ PollBegin
    \/ \E s \in PollSettings : PollApplySettings(s)
    \/ \E index \in {0, 1}, payload \in PollPayloads : PollPut(index, payload)

SpecPoll == InitPoll /\ [][NextPoll]_vars

(***************************************************************************)
(* WiFiManager's network scan: triggerScan from the BLE host task and the  *)
(* async TCP task, and the task wifiScanNotifier.                          *)
(***************************************************************************)
MaxTriggers == 4

\* xQueueCreate(1, sizeof(WifiScanEvent))
SCAN_QUEUE_LENGTH == 1

MAX_SCAN_NETWORK_COUNT == 15

\* everything but the scan
restOfScan ==
    <<lightVars, clock, mainVars, gates, mutex, bleChar, bleTaskVars, wsTaskVars, observerVars,
      historyVars, changes, connects, config, kindState, kindGates, lastSentHeapInfo, event,
      persistVars, alexaVars, blobVars, pollVars, lockVars, stepVars, packetVars, colorVars, otaVars>>

\* WiFiManager::triggerScan: xQueueSend with no wait; the queue after the
\* call and what the call returns
triggerScan(queue) ==
    IF Len(queue) >= SCAN_QUEUE_LENGTH
    THEN [queue |-> queue, result |-> FALSE]
    ELSE [queue |-> Append(queue, "StartScan"), result |-> TRUE]

\* WiFiScanStatusCallback::onWrite or handleWiFiScanMessage
TriggerScan ==
    /\ triggers < MaxTriggers
    /\ triggers' = triggers + 1
    /\ LET r == triggerScan(wifiScanQueue)
       IN  /\ wifiScanQueue' = r.queue
           /\ triggered' = [called |-> TRUE, result |-> r.result,
                            queued |-> Len(wifiScanQueue), running |-> scanPc = "scanning",
                            after |-> Len(r.queue)]
    /\ UNCHANGED <<restOfScan, scanPc, scanStatus, scanResult, scanLocal, watcher>>

\* wifiScanNotifier: xQueueReceive returns the event, the scan starts
ScanStart ==
    /\ scanPc = "blocked"
    /\ wifiScanQueue # <<>>
    /\ wifiScanQueue' = Tail(wifiScanQueue)
    /\ scanStatus' = "RUNNING"
    /\ scanPc' = "scanning"
    /\ watcher' = [watcher EXCEPT !.overtaken = @ \/ watcher.pc = "saw"]
    /\ UNCHANGED <<restOfScan, scanResult, scanLocal, triggers, triggered>>

\* wifiScanNotifier: WiFi.scanComplete() is no longer WIFI_SCAN_RUNNING; a
\* negative status is a failure, another the number of networks found, of
\* which distinct have a name not yet in the result; up to
\* setScanStatus(COMPLETED), the result collected in the local variable
ScanEnd(status, distinct) ==
    /\ scanPc = "scanning"
    /\ IF status < 0
       THEN /\ scanStatus' = "FAILED"
            /\ scanPc' = "blocked"
            /\ UNCHANGED scanLocal
       ELSE /\ scanStatus' = "COMPLETED"
            /\ scanPc' = "completed"
            /\ scanLocal' = <<Min(Min(distinct, status), MAX_SCAN_NETWORK_COUNT)>>
    /\ UNCHANGED <<restOfScan, wifiScanQueue, scanResult, triggers, triggered, watcher>>

\* wifiScanNotifier: setScanResult(result), then back to xQueueReceive
ScanPublish ==
    /\ scanPc = "completed"
    /\ scanResult' = scanLocal[1]
    /\ scanLocal' = <<>>
    /\ scanPc' = "blocked"
    /\ UNCHANGED <<restOfScan, wifiScanQueue, scanStatus, triggers, triggered, watcher>>

\* a client learns the scan status (the notification of setScanStatus, a
\* read of the characteristic, the state over HTTP) and finds COMPLETED
WatchStatus ==
    /\ watcher.pc # "saw"
    /\ scanStatus = "COMPLETED"
    /\ watcher' = [pc |-> "saw",
                   expected |-> IF scanLocal # <<>> THEN scanLocal[1] ELSE scanResult,
                   read |-> 0, overtaken |-> FALSE]
    /\ UNCHANGED <<restOfScan, wifiScanQueue, scanPc, scanStatus, scanResult, scanLocal,
                   triggers, triggered>>

\* the client reads the scan result next: getScanResult
WatchResult ==
    /\ watcher.pc = "saw"
    /\ watcher' = [watcher EXCEPT !.pc = "read", !.read = scanResult]
    /\ UNCHANGED <<restOfScan, wifiScanQueue, scanPc, scanStatus, scanResult, scanLocal,
                   triggers, triggered>>

\* what WiFi.scanComplete() returns after a scan, WIFI_SCAN_FAILED or the
\* number of networks, with the number of distinct names among them
ScanOutcomes == {<<-2, 0>>, <<0, 0>>, <<2, 1>>, <<2, 2>>, <<16, 16>>}

InitScan ==
    /\ lights = [c \in Colors |-> NewLight]
    /\ prefs = [c \in Colors |-> DefaultState]
    /\ started = FALSE
    /\ opCount = 0
    /\ lastOp = [op |-> "none", colors |-> {}, pre |-> [c \in Colors |-> DefaultState]]
    /\ config \in Builds
    /\ GateInit

NextScan ==
    \/ TriggerScan
    \/ ScanStart
    \/ \E o \in ScanOutcomes : ScanEnd(o[1], o[2])
    \/ ScanPublish
    \/ WatchStatus
    \/ WatchResult

SpecScan == InitScan /\ [][NextScan]_vars

(***************************************************************************)
(* The calls that read and write the device name, the calibration factor   *)
(* and the directory of paired devices, step by step: taking a mutex,      *)
(* releasing it, and each access to a field in the order of the code.      *)
(***************************************************************************)
Lock(m) == [do |-> "lock", on |-> m, value |-> 0]

Unlock(m) == [do |-> "unlock", on |-> m, value |-> 0]

Read(f) == [do |-> "read", on |-> f, value |-> 0]

WriteField(f, v) == [do |-> "write", on |-> f, value |-> v]

\* if (deviceName[0] == '\0') loadDeviceName(deviceName.data())
LoadName == [do |-> "load", on |-> "deviceName", value |-> 0]

\* strncmp(deviceName.data(), safeName, ...) == 0: return
CompareName(name) == [do |-> "compare", on |-> "deviceName", value |-> name]

\* DeviceManager::getDeviceName: the pointer to the buffer is returned as
\* the lock_guard goes out of scope
getDeviceName == <<Lock("deviceNameMutex"), LoadName, Unlock("deviceNameMutex")>>

\* DeviceManager::getDeviceNameArray: the copy is made under the lock
getDeviceNameArray ==
    <<Lock("deviceNameMutex"), LoadName, Read("deviceName"), Unlock("deviceNameMutex")>>

\* DeviceManager::setDeviceName, name not empty; both lock_guards live to
\* the end of the function
setDeviceName(name) ==
    <<Lock("deviceNameMutex"), CompareName(name), WriteField("storedName", name),
      WriteField("deviceName", ""), Lock("bleMutex"), Unlock("bleMutex"),
      Unlock("deviceNameMutex")>>

\* Sensor::getRawMillivolts
getRawMillivolts == <<Lock("sensorMutex"), Read("values"), Unlock("sensorMutex")>>

\* Sensor::getCalibrationFactor
getCalibrationFactor == <<Read("factor")>>

\* Sensor::setCalibrationFactor
setCalibrationFactor(f) == <<WriteField("factor", f)>>

\* Sensor::getData
Sensor_getData == getRawMillivolts \o getCalibrationFactor

\* ControllerHandler::getDeviceData, getDevicesBuffer
getDeviceData == <<Lock("espNowMutex"), Read("deviceData"), Unlock("espNowMutex")>>

\* ControllerHandler::setDeviceData
setDeviceData(count) ==
    <<Lock("espNowMutex"), WriteField("deviceData", count), Unlock("espNowMutex")>>

\* onDataReceived: espNowHandler.isMacAllowed(mac), its lock_guard and its
\* loop over deviceData
espNowLookup == <<Lock("espNowMutex"), Read("deviceData"), Unlock("espNowMutex")>>

\* DeviceNameCallback::onRead: strlen(name) and setValue(name) read the
\* buffer through the pointer
DeviceNameCallback_onRead == getDeviceName \o <<Read("deviceName")>>

\* DeviceManager::sendInputVoltageNotification, a characteristic present
sendInputVoltageNotification == <<Lock("bleMutex")>> \o Sensor_getData \o <<Unlock("bleMutex")>>

\* Sensor::handle
Sensor_handle == <<Lock("sensorMutex"), WriteField("values", 0), Unlock("sensorMutex")>>

DeviceNames == {"rgbw-ctrl", "kitchen"}

Factors == {1, 2}

DeviceCounts == {0, 1}

\* what each context calls
Calls(context) ==
    CASE context = "ble" ->
             {DeviceNameCallback_onRead, Sensor_getData, getDeviceData}
                 \cup {setDeviceName(n) : n \in DeviceNames}
                 \cup {setCalibrationFactor(f) : f \in Factors}
                 \cup {setDeviceData(n) : n \in DeviceCounts}
      [] context = "loop" ->
             {Sensor_handle, sendInputVoltageNotification, getDeviceNameArray, getDeviceData}
      [] OTHER -> {espNowLookup}

\* the mutexes a context holds
Held(context) == {m \in Mutexes : holder[m] = context}

\* everything but the mutexes and what they guard
restOfLock ==
    <<lightVars, clock, mainVars, gates, mutex, bleChar, bleTaskVars, wsTaskVars, observerVars,
      historyVars, changes, connects, config, kindState, kindGates, lastSentHeapInfo, event,
      persistVars, alexaVars, blobVars, pollVars, scanVars, stepVars, packetVars, colorVars, otaVars>>

\* a context enters a call
Call(context, steps) ==
    /\ running[context] = <<>>
    /\ running' = [running EXCEPT ![context] = steps]
    /\ UNCHANGED <<restOfLock, holder, deviceName, storedName, factor, deviceData, accessed>>

\* the value a field holds after a write
Fields(f, v) ==
    /\ deviceName' = IF f = "deviceName" THEN v ELSE deviceName
    /\ storedName' = IF f = "storedName" THEN v ELSE storedName
    /\ factor' = IF f = "factor" THEN v ELSE factor
    /\ deviceData' = IF f = "deviceData" THEN v ELSE deviceData

\* a context takes the next step of its call; std::mutex::lock waits
\* until the mutex is free
Step(context) ==
    /\ running[context] # <<>>
    /\ LET step == Head(running[context])
           rest == Tail(running[context])
           access(kind) == [context |-> context, field |-> step.on, kind |-> kind,
                            held |-> Held(context)]
       IN  CASE step.do = "lock" ->
                    /\ holder[step.on] = "none"
                    /\ holder' = [holder EXCEPT ![step.on] = context]
                    /\ running' = [running EXCEPT ![context] = rest]
                    /\ UNCHANGED <<deviceName, storedName, factor, deviceData, accessed>>
             [] step.do = "unlock" ->
                    /\ holder' = [holder EXCEPT ![step.on] = "none"]
                    /\ running' = [running EXCEPT ![context] = rest]
                    /\ UNCHANGED <<deviceName, storedName, factor, deviceData, accessed>>
             [] step.do = "read" ->
                    /\ accessed' = access("read")
                    /\ running' = [running EXCEPT ![context] = rest]
                    /\ UNCHANGED <<holder, deviceName, storedName, factor, deviceData>>
             [] step.do = "write" ->
                    /\ accessed' = access("write")
                    /\ Fields(step.on, step.value)
                    /\ running' = [running EXCEPT ![context] = rest]
                    /\ UNCHANGED holder
             [] step.do = "load" ->
                    /\ accessed' = access(IF deviceName = "" THEN "write" ELSE "read")
                    /\ Fields("deviceName", IF deviceName = "" THEN storedName ELSE deviceName)
                    /\ running' = [running EXCEPT ![context] = rest]
                    /\ UNCHANGED holder
             [] OTHER ->
                    \* compare: on equal names the function returns, and the
                    \* lock_guard releases the mutex
                    /\ accessed' = access("read")
                    /\ running' = [running EXCEPT ![context] =
                                      IF deviceName = step.value
                                      THEN <<Unlock("deviceNameMutex")>>
                                      ELSE rest]
                    /\ UNCHANGED <<holder, deviceName, storedName, factor, deviceData>>
    /\ UNCHANGED restOfLock

InitLock ==
    /\ lights = [c \in Colors |-> NewLight]
    /\ prefs = [c \in Colors |-> DefaultState]
    /\ started = FALSE
    /\ opCount = 0
    /\ lastOp = [op |-> "none", colors |-> {}, pre |-> [c \in Colors |-> DefaultState]]
    /\ config \in Builds
    /\ GateInit

NextLock ==
    \/ \E context \in Contexts : \E steps \in Calls(context) : Call(context, steps)
    \/ \E context \in Contexts : Step(context)

SpecLock == InitLock /\ [][NextLock]_vars

(***************************************************************************)
(* The composite operations of Output::Manager call by call, and getState  *)
(* light by light.  No mutex guards Output::Manager::lights: each call on  *)
(* a Light and each copy of a Light's state is a step of its own.          *)
(***************************************************************************)
MaxComposites == 1

\* the lights in the order of the array Output::Manager::lights
ColorOrder == <<Red, Green, Blue, White>>

\* a call on the Light of one color
LightCall(color, call, arg) == [color |-> color, call |-> call, arg |-> arg]

\* the Light after a call
Called(l, step) ==
    CASE step.call = "setValue" -> Light_setValue(l, step.color, step.arg)
      [] step.call = "setOn" -> Light_setOn(l, step.color, step.arg)
      [] step.call = "setState" -> Light_setState(l, step.color, step.arg)
      [] OTHER -> Light_makeVisible(l, step.color)

\* one call for each light of colors, in order
Each(colors, call, args) ==
    [i \in 1 .. Len(colors) |-> LightCall(colors[i], call, args[i])]

\* two calls for each light, in order
EachTwice(call1, arg1, call2, arg2) ==
    [i \in 1 .. 2 * Len(ColorOrder) |->
        IF i % 2 = 1
        THEN LightCall(ColorOrder[(i + 1) \div 2], call1, arg1)
        ELSE LightCall(ColorOrder[i \div 2], call2, arg2)]

\* a composite operation: the calls it makes on the lights ls, and its
\* result when it runs alone
Composite(ls, op) ==
    CASE op.name = "setColor" /\ Len(op.args) = 3 ->
             [steps |-> Each(<<Red, Green, Blue>>, "setValue", op.args),
              post |-> Manager_setColor3(ls, op.args[1], op.args[2], op.args[3])]
      [] op.name = "setColor" ->
             [steps |-> Each(ColorOrder, "setValue", op.args),
              post |-> Manager_setColor4(ls, op.args[1], op.args[2], op.args[3], op.args[4])]
      [] op.name = "setOn" ->
             [steps |-> Each(ColorOrder, "setOn", op.args),
              post |-> Manager_setOn4(ls, op.args[1], op.args[2], op.args[3], op.args[4])]
      [] op.name = "setAll" ->
             [steps |-> EachTwice("setValue", op.args[1], "setOn", op.args[2]),
              post |-> Manager_setAll(ls, op.args[1], op.args[2])]
      [] op.name = "setState" ->
             [steps |-> Each(ColorOrder, "setState", [i \in 1 .. 4 |-> op.args[1][ColorOrder[i]]]),
              post |-> Manager_setState(ls, op.args[1])]
      [] op.name = "toggleAll" ->
             [steps |-> IF Manager_anyVisible(ls)
                        THEN Each(ColorOrder, "setOn", <<FALSE, FALSE, FALSE, FALSE>>)
                        ELSE EachTwice("setOn", TRUE, "setValue", ON_VALUE),
              post |-> Manager_toggleAll(ls)]
      [] op.name = "turnOnAll" ->
             [steps |-> Each(ColorOrder, "makeVisible", <<0, 0, 0, 0>>),
              post |-> Manager_turnOnAll(ls)]
      [] OTHER ->
             [steps |-> Each(ColorOrder, "setOn", <<FALSE, FALSE, FALSE, FALSE>>),
              post |-> Manager_turnOffAll(ls)]

Operate(name, args) == [name |-> name, args |-> args]

\* the operations a client asks for
Composites ==
    {Operate("setColor", <<255, 0, 128>>), Operate("setColor", <<0, 255, 0, 64>>),
     Operate("setOn", <<TRUE, FALSE, TRUE, TRUE>>),
     Operate("setAll", <<100, TRUE>>), Operate("setAll", <<0, FALSE>>),
     Operate("setState", <<RedAndWhite>>),
     Operate("toggleAll", <<>>), Operate("turnOnAll", <<>>), Operate("turnOffAll", <<>>)}

\* everything but the lights, the operation and getState
restOfStep ==
    <<prefs, started, opCount, lastOp, clock, mainVars, gates, mutex, bleChar, bleTaskVars,
      wsTaskVars, observerVars, historyVars, changes, connects, config, kindState, kindGates,
      lastSentHeapInfo, event, persistVars, alexaVars, blobVars, pollVars, scanVars, lockVars,
      packetVars, colorVars, otaVars>>

\* the writing task enters a composite operation; toggleAll evaluates
\* anyVisible() before its loop
CompositeBegin(op) ==
    /\ writer.steps = <<>>
    /\ composites < MaxComposites
    /\ composites' = composites + 1
    /\ LET c == Composite(lights, op)
       IN  writer' = [op |-> op.name, steps |-> c.steps,
                      pre |-> Manager_getState(lights), post |-> Manager_getState(c.post)]
    /\ reader' = IF reader.copied # <<>>
                 THEN [reader EXCEPT !.ops = @ \cup {composites'}]
                 ELSE reader
    /\ UNCHANGED <<restOfStep, lights, observed>>

\* the writing task makes the next call of its operation
CompositeStep ==
    /\ writer.steps # <<>>
    /\ LET step == Head(writer.steps)
       IN  lights' = [lights EXCEPT ![step.color] = Called(lights[step.color], step)]
    /\ writer' = [writer EXCEPT !.steps = Tail(@)]
    /\ UNCHANGED <<restOfStep, reader, composites, observed>>

\* Output::Manager::getState in the reading task: std::transform copies
\* the next light's state, and after the last one the array is returned
GetStateStep ==
    /\ LET color == ColorOrder[Len(reader.copied) + 1]
           copied == Append(reader.copied, Light_getState(lights[color]))
           ops == IF writer.steps # <<>> THEN reader.ops \cup {composites} ELSE reader.ops
       IN  IF Len(copied) < Len(ColorOrder)
           THEN /\ reader' = [copied |-> copied, ops |-> ops]
                /\ UNCHANGED observed
           ELSE /\ reader' = [copied |-> <<>>, ops |-> {}]
                /\ observed' = [returned |-> TRUE,
                                state |-> [c \in Colors |->
                                              copied[CHOOSE i \in 1 .. 4 : ColorOrder[i] = c]],
                                ops |-> ops, begun |-> composites,
                                pre |-> writer.pre, post |-> writer.post]
    /\ UNCHANGED <<restOfStep, lights, writer, composites>>

InitStep ==
    /\ lights \in {Manager_begin([c \in Colors |-> NewLight], stored) :
                       stored \in {[c \in Colors |-> DefaultState], RedAndWhite}}
    /\ prefs = [c \in Colors |-> DefaultState]
    /\ started = TRUE
    /\ opCount = 0
    /\ lastOp = [op |-> "none", colors |-> {}, pre |-> [c \in Colors |-> DefaultState]]
    /\ config \in Builds
    /\ GateInit

NextStep ==
    \/ \E op \in Composites : CompositeBegin(op)
    \/ CompositeStep
    \/ GetStateStep

SpecStep == InitStep /\ [][NextStep]_vars

(***************************************************************************)
(* Writes to the BLE characteristics.  A write carries any number of bytes:*)
(* the characteristics are created with READ | WRITE and no length.        *)
(***************************************************************************)
MaxWrites == 3

Zeros(n) == [i \in 1 .. n |-> 0]

\* a char array of n bytes holding the text chars
Padded(chars, n) == chars \o Zeros(n - Len(chars))

\* the text a char array holds: the bytes before the first terminator
CString(bytes) ==
    LET nul == {i \in 1 .. Len(bytes) : bytes[i] = 0}
    IN  IF nul = {} THEN bytes
        ELSE SubSeq(bytes, 1, (CHOOSE i \in nul : \A j \in nul : i <= j) - 1)

sizeof_State == 8

sizeof_Settings == 129

sizeof_float == 4

sizeof_WiFiConnectionDetails == 422

sizeof_Credentials == 66

MAC_LENGTH == 6

NAME_TOTAL_LENGTH == 24

sizeof_Device == NAME_TOTAL_LENGTH + MAC_LENGTH

MAX_DEVICES_PER_MESSAGE == 10

MAX_DEVICE_NAME_LENGTH == 32

WIFI_MAX_SSID_LENGTH == 32

WPA2_ENTERPRISE == 5

WPA3_ENT_192 == 9

\* the device names the model writes, as text
Lamp == <<76, 97, 109, 112>>

\* the std::string of a char array, for the names the model knows
Text(chars) == IF chars = Lamp THEN "Lamp" ELSE NoName

\* memcpy into Output::State: four Light::State of a bool and a uint8_t
DecodeState(data) == [c \in Colors |-> LightState(data[2 * c + 1] # 0, data[2 * c + 2])]

\* memcpy into AlexaIntegration::Settings: the mode, then four names of
\* MAX_DEVICE_NAME_LENGTH chars
DecodeSettings(data) ==
    [integrationMode |-> CASE data[1] = 0 -> "OFF"
                           [] data[1] = 1 -> "RGBW_DEVICE"
                           [] data[1] = 2 -> "RGB_DEVICE"
                           [] data[1] = 3 -> "MULTI_DEVICE",
     deviceNames |-> [c \in Colors |->
                         Text(CString(SubSeq(data, 2 + MAX_DEVICE_NAME_LENGTH * c,
                                             1 + MAX_DEVICE_NAME_LENGTH * (c + 1))))]]

\* OutputColorCallback::onWrite: the lights and the gate of the color
\* notification after the write
OutputColorCallback_onWrite(ls, gate, data, now) ==
    IF Len(data) # sizeof_State
    THEN [lights |-> ls, gate |-> gate]
    ELSE [lights |-> Manager_setState(ls, DecodeState(data)),
          gate |-> setLastSent(gate, now, DecodeState(data))]

\* AlexaCallback::onWrite: applySettings of the settings written
AlexaCallback_onWrite(a, s, stored, ls, data) ==
    IF Len(data) # sizeof_Settings
    THEN [a |-> a, settings |-> s, stored |-> stored]
    ELSE [a |-> setupDevices(clearDevices(a), DecodeSettings(data), ls),
          settings |-> DecodeSettings(data), stored |-> DecodeSettings(data)]

\* CalibrationCallback::onWrite: Sensor::setCalibrationFactor stores the float
CalibrationCallback_onWrite(b, data) ==
    IF Len(data) # sizeof_float THEN b ELSE [b EXCEPT !.calibration = <<data>>]

isEap(encryptionType) == encryptionType \in {WPA2_ENTERPRISE, WPA3_ENT_192}

\* WiFiDetailsCallback::onWrite: WiFiManager::connect, which refuses an
\* empty SSID, stores the details and begins the connection
WiFiDetailsCallback_onWrite(b, data) ==
    IF Len(data) # sizeof_WiFiConnectionDetails
    THEN b
    ELSE LET ssid == CString(SubSeq(data, 2, 2 + WIFI_MAX_SSID_LENGTH))
         IN  IF ssid = <<>>
             THEN b
             ELSE [b EXCEPT !.wifi = [stored |-> <<[encryptionType |-> data[1],
                                                    eap |-> isEap(data[1]),
                                                    ssid |-> ssid]>>,
                                      begun |-> <<ssid>>]]

\* CredentialsCallback::onWrite: Manager::updateCredentials
CredentialsCallback_onWrite(b, data) ==
    IF Len(data) # sizeof_Credentials
    THEN b
    ELSE LET c == [username |-> CString(SubSeq(data, 1, 33)),
                   password |-> CString(SubSeq(data, 34, 66))]
         IN  [b EXCEPT !.credentials = [memory |-> c, stored |-> <<c>>]]

\* EspNowControllerCallback::onWrite: copy_n of as many bytes as the write
\* has into an array of MAC_LENGTH zeros, then setControllerAddress; overrun
\* says whether copy_n wrote behind the array
EspNowControllerCallback_onWrite(b, data) ==
    LET address == IF Len(data) > MAC_LENGTH
                   THEN SubSeq(data, 1, MAC_LENGTH)
                   ELSE Padded(data, MAC_LENGTH)
    IN  [blobs |-> [b EXCEPT !.controllerAddress = [memory |-> address, stored |-> <<address>>]],
         overrun |-> Len(data) > MAC_LENGTH]

\* ControllerHandler::setDevicesBuffer, which EspNowDevicesCallback::onWrite
\* calls with the bytes written
setDevicesBuffer(b, data) ==
    IF Len(data) < 1
    THEN b
    ELSE IF Len(data) < 1 + data[1] * sizeof_Device
         THEN b
         ELSE LET deviceCount == Min(data[1], MAX_DEVICES_PER_MESSAGE)
                  devices == [i \in 1 .. deviceCount |->
                                 LET offset == 1 + (i - 1) * sizeof_Device
                                 IN  [name |-> SubSeq(data, offset + 1,
                                                      offset + NAME_TOTAL_LENGTH),
                                      address |-> SubSeq(data, offset + NAME_TOTAL_LENGTH + 1,
                                                         offset + sizeof_Device)]]
              IN  [b EXCEPT !.devices = [memory |-> devices, stored |-> <<devices>>]]

\* what the writes of a client can change: the state in memory and stored
Snapshot ==
    [lights |-> lights, gate |-> gates["ble"], settings |-> settings,
     alexaPrefs |-> alexaPrefs, heap |-> heap, registry |-> registry, slots |-> slots,
     blobs |-> blobs]

\* the write becomes the last one; size is the size of the blob written to
Wrote(target, data, size) ==
    /\ ~halted
    /\ lastWrite.count < MaxWrites
    /\ lastWrite' = [target |-> target, length |-> Len(data), size |-> size,
                     count |-> lastWrite.count + 1, before |-> Snapshot]

\* what no write changes
blobRest ==
    <<quietVars, persistVars, pollVars, extraVars, prefs, clock, changes, alexaOutputState, lastOutputStateUpdate,
      webServer, mac24, request, begins, applies, requests, applyPc, loopPc, loopMode,
      loopPtrs, httpPc, httpPtr>>

outputPart == <<lights, gates>>

alexaPart == <<settings, alexaPrefs, heap, registry, slots, slotsMode>>

faultPart == <<fault, halted>>

WriteOutput(data) ==
    /\ config = "controller"
    /\ Wrote("output", data, sizeof_State)
    /\ LET r == OutputColorCallback_onWrite(lights, gates["ble"], data, clock)
       IN  /\ lights' = r.lights
           /\ gates' = [gates EXCEPT !["ble"] = r.gate]
    /\ UNCHANGED <<blobRest, alexaPart, faultPart, blobs>>

WriteSettings(data) ==
    /\ config = "controller"
    /\ Wrote("settings", data, sizeof_Settings)
    /\ LET r == AlexaCallback_onWrite(Alexa, settings, alexaPrefs, lights, data)
       IN  /\ settings' = r.settings
           /\ alexaPrefs' = r.stored
           /\ heap' = r.a.heap
           /\ registry' = r.a.registry
           /\ slots' = r.a.slots
           /\ slotsMode' = r.settings.integrationMode
    /\ UNCHANGED <<blobRest, outputPart, faultPart, blobs>>

WriteCalibration(data) ==
    /\ Wrote("calibration", data, sizeof_float)
    /\ blobs' = CalibrationCallback_onWrite(blobs, data)
    /\ UNCHANGED <<blobRest, outputPart, alexaPart, faultPart>>

WriteWiFiDetails(data) ==
    /\ Wrote("wifi", data, sizeof_WiFiConnectionDetails)
    /\ blobs' = WiFiDetailsCallback_onWrite(blobs, data)
    /\ UNCHANGED <<blobRest, outputPart, alexaPart, faultPart>>

WriteCredentials(data) ==
    /\ Wrote("credentials", data, sizeof_Credentials)
    /\ blobs' = CredentialsCallback_onWrite(blobs, data)
    /\ UNCHANGED <<blobRest, outputPart, alexaPart, faultPart>>

\* the remote's controller address; a write of more than MAC_LENGTH bytes
\* writes behind the array: the firmware stops there or goes on with the
\* first MAC_LENGTH bytes
WriteControllerAddress(data) ==
    /\ config = "remote"
    /\ Wrote("controllerAddress", data, MAC_LENGTH)
    /\ LET r == EspNowControllerCallback_onWrite(blobs, data)
       IN  IF r.overrun
           THEN /\ Undefined("array overrun")
                /\ blobs' = IF halted' THEN blobs ELSE r.blobs
           ELSE /\ blobs' = r.blobs
                /\ UNCHANGED faultPart
    /\ UNCHANGED <<blobRest, outputPart, alexaPart>>

\* the controller's list of paired devices: a count, then the devices
WriteDevices(data) ==
    /\ config = "controller"
    /\ Wrote("devices", data, IF Len(data) < 1 THEN 1 ELSE 1 + sizeof_Device * data[1])
    /\ blobs' = setDevicesBuffer(blobs, data)
    /\ UNCHANGED <<blobRest, outputPart, alexaPart, faultPart>>

\* millis() advances
BlobAdvance ==
    /\ ~halted
    /\ clock < TimeStep
    /\ clock' = clock + TimeStep
    /\ UNCHANGED <<lightVars, notifyVars, observerVars, changes, connects, config, kindState,
                   kindGates, lastSentHeapInfo, event>>

\* a blob, one byte less and one byte more of it, and nothing
Lengths(d) == {d, SubSeq(d, 1, Len(d) - 1), d \o <<1>>, <<>>}

OutputInputs == Lengths(<<1, 200, 0, 0, 1, 128, 0, 0>>)

SettingsBytes(mode, r, g, b, w) ==
    <<mode>> \o Padded(r, MAX_DEVICE_NAME_LENGTH) \o Padded(g, MAX_DEVICE_NAME_LENGTH)
             \o Padded(b, MAX_DEVICE_NAME_LENGTH) \o Padded(w, MAX_DEVICE_NAME_LENGTH)

SettingsBlobs ==
    Lengths(SettingsBytes(1, Lamp, <<>>, <<>>, <<>>)) \cup {SettingsBytes(0, <<>>, <<>>, <<>>, <<>>)}

\* 1.0f, little-endian
CalibrationInputs == Lengths(<<0, 0, 128, 63>>)

\* WPA2_PSK, the network "home" and the password "pw"; the same with no SSID
WiFiInputs ==
    Lengths(<<3>> \o Padded(<<104, 111, 109, 101>>, WIFI_MAX_SSID_LENGTH + 1)
                 \o Padded(<<112, 119>>, 388))
        \cup {<<3>> \o Zeros(WIFI_MAX_SSID_LENGTH + 1) \o Padded(<<112, 119>>, 388)}

\* the user "a" with the password "b"
CredentialsInputs == Lengths(Padded(<<97>>, 33) \o Padded(<<98>>, 33))

ControllerAddressInputs == Lengths(<<36, 10, 196, 1, 2, 3>>) \cup {<<9, 9, 9>>}

\* a paired device: its name, then its address
DeviceBytes(name, address) == Padded(name, NAME_TOTAL_LENGTH) \o address

\* one device; the same with a byte missing, a byte too many and no bytes;
\* two devices; no device, alone and with a byte behind the count
DevicesInputs ==
    LET one == DeviceBytes(Lamp, <<36, 10, 196, 1, 2, 3>>)
        two == DeviceBytes(Admin, <<36, 10, 196, 4, 5, 6>>)
    IN  Lengths(<<1>> \o one) \cup {<<2>> \o one \o two, <<0>>, <<0, 7>>}

\* either firmware after setup(), nothing stored, a BLE client connected
InitBlob ==
    /\ lights = Manager_begin([c \in Colors |-> NewLight], [c \in Colors |-> DefaultState])
    /\ prefs = [c \in Colors |-> DefaultState]
    /\ started = TRUE
    /\ opCount = 0
    /\ lastOp = [op |-> "none", colors |-> {}, pre |-> [c \in Colors |-> DefaultState]]
    /\ config \in Builds
    /\ GateInit

NextBlob ==
    \/ BlobAdvance
    \/ \E data \in OutputInputs : WriteOutput(data)
    \/ \E data \in SettingsBlobs : WriteSettings(data)
    \/ \E data \in CalibrationInputs : WriteCalibration(data)
    \/ \E data \in WiFiInputs : WriteWiFiDetails(data)
    \/ \E data \in CredentialsInputs : WriteCredentials(data)
    \/ \E data \in ControllerAddressInputs : WriteControllerAddress(data)
    \/ \E data \in DevicesInputs : WriteDevices(data)

SpecBlob == InitBlob /\ [][NextBlob]_vars

(***************************************************************************)
(* ESP-NOW packets to the controller: onDataReceived and onEspNowMessage   *)
(* (controller.cpp), with the directory of paired devices as the BLE       *)
(* client writes it.                                                       *)
(***************************************************************************)
MaxPackets == 2

\* sizeof(EspNow::Message): one byte, the type
sizeof_Message == 1

\* entry i of DeviceData::devices, of which directory holds the first
\* deviceCount; setDevicesBuffer leaves the others zero
DeviceEntry(directory, i) ==
    IF i <= Len(directory)
    THEN directory[i]
    ELSE [name |-> Zeros(NAME_TOTAL_LENGTH), address |-> Zeros(MAC_LENGTH)]

\* a lookup over the whole array, whatever deviceCount is
isMacAllowed_wholeArray(directory, mac) ==
    \E i \in 1 .. MAX_DEVICES_PER_MESSAGE : DeviceEntry(directory, i).address = mac

\* ControllerHandler::isMacAllowed
isMacAllowed(directory, mac) ==
    \E i \in 1 .. Len(directory) : DeviceEntry(directory, i).address = mac

\* onEspNowMessage: the lights after a message of the given type; a type
\* beyond the enumeration matches no case
onEspNowMessage(ls, type) ==
    CASE type = 0 -> Manager_toggle(ls, Red)
      [] type = 1 -> Manager_toggle(ls, Green)
      [] type = 2 -> Manager_toggle(ls, Blue)
      [] type = 3 -> Manager_toggle(ls, White)
      [] type = 4 -> Manager_toggleAll(ls)
      [] type = 5 -> Manager_turnOffAll(ls)
      [] type = 6 -> Manager_turnOnAll(ls)
      [] type = 7 -> Manager_increaseBrightness(ls)
      [] type = 8 -> Manager_decreaseBrightness(ls)
      [] OTHER -> ls

\* onDataReceived: the lights after a packet of the bytes data from mac
onDataReceived(ls, directory, mac, data) ==
    IF ~isMacAllowed(directory, mac)
    THEN ls
    ELSE IF Len(data) # sizeof_Message
         THEN ls
         ELSE onEspNowMessage(ls, data[1])

\* a packet arrives
Receive(mac, data) ==
    /\ config = "controller"
    /\ packet.count < MaxPackets
    /\ packet' = [count |-> packet.count + 1, mac |-> mac, length |-> Len(data),
                  directory |-> blobs.devices.memory, before |-> Manager_getState(lights)]
    /\ lights' = onDataReceived(lights, blobs.devices.memory, mac, data)
    /\ UNCHANGED <<quietVars, gates, blobVars, pollVars, persistVars, alexaVars, prefs, clock,
                   changes, scanVars, lockVars, stepVars, colorVars, otaVars>>

\* EspNowDevicesCallback::onWrite: a BLE client writes the directory
Pair(data) ==
    /\ config = "controller"
    /\ blobs' = setDevicesBuffer(blobs, data)
    /\ UNCHANGED <<blobRest, outputPart, alexaPart, faultPart, lastWrite>>

\* the addresses of the two paired remotes, of one never paired, and the
\* address zero of the unused entries
PacketMacs ==
    {<<36, 10, 196, 1, 2, 3>>, <<36, 10, 196, 4, 5, 6>>, <<36, 10, 196, 7, 8, 9>>,
     Zeros(MAC_LENGTH)}

\* a message of each type and of a type beyond the enumeration; no byte;
\* two bytes
PacketData == {<<t>> : t \in 0 .. 9} \cup {<<>>, <<0, 0>>, <<4, 4>>}

InitEspNow ==
    /\ lights \in {Manager_begin([c \in Colors |-> NewLight], stored) :
                       stored \in {[c \in Colors |-> DefaultState], RedAndWhite}}
    /\ prefs = [c \in Colors |-> DefaultState]
    /\ started = TRUE
    /\ opCount = 0
    /\ lastOp = [op |-> "none", colors |-> {}, pre |-> [c \in Colors |-> DefaultState]]
    /\ config = "controller"
    /\ GateInit

NextEspNow ==
    \/ \E data \in DevicesInputs : Pair(data)
    \/ \E mac \in PacketMacs : \E data \in PacketData : Receive(mac, data)

SpecEspNow == InitEspNow /\ [][NextEspNow]_vars

(***************************************************************************)
(* hsvToRgbw called on its own.                                            *)
(***************************************************************************)
\* the call returns
Convert ==
    /\ rgbwResult = <<>>
    /\ rgbwResult' = hsvToRgbw(hsvArgs[1], hsvArgs[2], hsvArgs[3])
    /\ UNCHANGED <<lightVars, clock, mainVars, gates, mutex, bleChar, bleTaskVars, wsTaskVars,
                   observerVars, historyVars, changes, connects, config, kindState, kindGates,
                   lastSentHeapInfo, event, persistVars, alexaVars, blobVars, pollVars,
                   scanVars, lockVars, stepVars, packetVars, otaVars, hsvArgs, hsvBack>>

InitColor ==
    /\ lights = [c \in Colors |-> NewLight]
    /\ prefs = [c \in Colors |-> DefaultState]
    /\ started = FALSE
    /\ opCount = 0
    /\ lastOp = [op |-> "none", colors |-> {}, pre |-> [c \in Colors |-> DefaultState]]
    /\ config = "controller"
    /\ KindInit
    /\ PersistConstructed
    /\ AlexaInit
    /\ NotifyInit
    /\ ColorInit

NextColor == Convert

SpecColor == InitColor /\ [][NextColor]_vars

(***************************************************************************)
(* hsvToRgbw and rgbwToHsv one after the other.                            *)
(***************************************************************************)
\* rgbwToHsv returns for what hsvToRgbw returned
ConvertBack ==
    /\ rgbwResult # <<>>
    /\ hsvBack = <<>>
    /\ hsvBack' = rgbwToHsv(rgbwResult[1], rgbwResult[2], rgbwResult[3], rgbwResult[4])
    /\ UNCHANGED <<lightVars, clock, mainVars, gates, mutex, bleChar, bleTaskVars, wsTaskVars,
                   observerVars, historyVars, changes, connects, config, kindState, kindGates,
                   lastSentHeapInfo, event, persistVars, alexaVars, blobVars, pollVars,
                   scanVars, lockVars, stepVars, packetVars, otaVars, hsvArgs, rgbwResult>>

InitTrip ==
    /\ lights = [c \in Colors |-> NewLight]
    /\ prefs = [c \in Colors |-> DefaultState]
    /\ started = FALSE
    /\ opCount = 0
    /\ lastOp = [op |-> "none", colors |-> {}, pre |-> [c \in Colors |-> DefaultState]]
    /\ config = "controller"
    /\ KindInit
    /\ PersistConstructed
    /\ AlexaInit
    /\ NotifyInit
    /\ ScaleInit

NextTrip ==
    \/ Convert
    \/ ConvertBack

SpecTrip == InitTrip /\ [][NextTrip]_vars

(***************************************************************************)
(* Requests to /update.  The web server runs the callbacks of every        *)
(* request in its one task: canHandle as the headers are in, handleUpload  *)
(* or handleBody for each piece of the body, handleRequest at the end and  *)
(* the disconnect callback as the connection closes.                       *)
(***************************************************************************)
\* bytes an update may take
MaxBytes == 2

MSG_ALREADY_IN_PROGRESS == "OTA update already in progress"

\* AsyncOtaWebHandler::resetUpdateState
resetUpdateState(o) ==
    [o EXCEPT !.status = "Idle", !.totalBytesExpected = 0, !.totalBytesReceived = 0,
              !.uploadCompleted = FALSE, !.updateError = FALSE]

\* AsyncOtaWebHandler::isRequestValidForUpload
isRequestValidForUpload(r) == r.authenticated /\ ~r.doubleRequest

\* AsyncOtaWebHandler::canHandle for a GET or POST of /update: the handler
\* and the request after it.  contentLength is <<>> without the header, md5
\* tells whether Update.setMD5 takes the parameter, beginOk whether
\* Update.begin succeeds
canHandle(o, r, method, credentials, contentLength, md5, beginOk) ==
    LET arrived == [r EXCEPT !.phase = "attached", !.method = method,
                             !.credentials = credentials, !.arrivedIn = o.status]
    IN  IF credentials # "right"
        THEN [ota |-> o, request |-> arrived]
        ELSE LET allowed == [arrived EXCEPT !.authenticated = TRUE]
             IN  IF o.status = "Started"
                 THEN [ota |-> o, request |-> [allowed EXCEPT !.doubleRequest = TRUE]]
                 ELSE LET fresh == [resetUpdateState(o) EXCEPT
                                        !.status = "Started",
                                        !.totalBytesExpected =
                                            IF contentLength # <<>>
                                            THEN contentLength[1] ELSE 0]
                      IN  IF md5 = "invalid"
                          THEN [ota |-> [fresh EXCEPT !.updateError = TRUE,
                                                      !.status = "Failed"],
                                request |-> allowed]
                          ELSE [ota |-> IF beginOk
                                        THEN [fresh EXCEPT !.running = TRUE, !.written = 0]
                                        ELSE [fresh EXCEPT !.status = "Failed",
                                                           !.updateError = TRUE],
                                request |-> [allowed EXCEPT !.onDisconnect = TRUE]]

\* a handleRequest that lets a second request finish the update
handleRequest_noDoubleCheck(o, r, endOk) ==
    IF r.method = "GET"
    THEN [ota |-> o, response |-> <<302, "/ota.html">>]
    ELSE IF ~r.authenticated
    THEN [ota |-> o,
          response |-> <<401, IF r.credentials = "wrong" THEN "Wrong credentials"
                              ELSE "Authentication required for OTA update">>]
    ELSE IF o.updateError
    THEN [ota |-> [o EXCEPT !.updateError = FALSE], response |-> <<500, "error">>]
    ELSE IF o.status # "Started"
    THEN [ota |-> o, response |-> <<500, "Not enough space for OTA update">>]
    ELSE IF ~o.uploadCompleted
    THEN [ota |-> [o EXCEPT !.status = "Idle"],
          response |-> <<500, "OTA upload not completed">>]
    ELSE IF endOk
    THEN [ota |-> [o EXCEPT !.status = "Completed", !.running = FALSE],
          response |-> <<200, "OTA update successful">>]
    ELSE [ota |-> [o EXCEPT !.status = "Failed", !.running = FALSE],
          response |-> <<500, "error">>]

\* AsyncOtaWebHandler::handleRequest: the handler after it and the response;
\* endOk tells whether Update.end succeeds
handleRequest(o, r, endOk) ==
    IF r.method = "GET"
    THEN [ota |-> o, response |-> <<302, "/ota.html">>]
    ELSE IF ~r.authenticated
    THEN [ota |-> o,
          response |-> <<401, IF r.credentials = "wrong" THEN "Wrong credentials"
                              ELSE "Authentication required for OTA update">>]
    ELSE IF r.doubleRequest
    THEN [ota |-> o, response |-> <<400, MSG_ALREADY_IN_PROGRESS>>]
    ELSE IF o.updateError
    THEN [ota |-> [o EXCEPT !.updateError = FALSE], response |-> <<500, "error">>]
    ELSE IF o.status # "Started"
    THEN [ota |-> o, response |-> <<500, "Not enough space for OTA update">>]
    ELSE IF ~o.uploadCompleted
    THEN [ota |-> [o EXCEPT !.status = "Idle"],
          response |-> <<500, "OTA upload not completed">>]
    ELSE IF endOk
    THEN [ota |-> [o EXCEPT !.status = "Completed", !.running = FALSE],
          response |-> <<200, "OTA update successful">>]
    ELSE [ota |-> [o EXCEPT !.status = "Failed", !.running = FALSE],
          response |-> <<500, "error">>]

\* AsyncOtaWebHandler::handleUpload and handleBody, which differ in how they
\* tell the last piece: the handler after a piece of len bytes; writeOk
\* tells whether Update.write takes them all
handleUpload(o, r, len, final, writeOk) ==
    IF o.status # "Started" \/ ~isRequestValidForUpload(r)
    THEN o
    ELSE IF ~writeOk
    THEN [o EXCEPT !.status = "Failed", !.updateError = TRUE]
    ELSE [o EXCEPT !.written = @ + len,
                   !.totalBytesReceived = @ + len,
                   !.uploadCompleted = @ \/ final]

\* the callback canHandle gives request->onDisconnect
onDisconnect(o) ==
    resetUpdateState(IF o.status # "Completed"
                     THEN [o EXCEPT !.running = FALSE, !.written = 0]
                     ELSE o)

\* everything but the update
restOfOta ==
    <<lightVars, clock, mainVars, gates, mutex, bleChar, bleTaskVars, wsTaskVars, observerVars,
      historyVars, changes, connects, config, kindState, kindGates, lastSentHeapInfo, event,
      persistVars, alexaVars, blobVars, pollVars, scanVars, lockVars, stepVars, packetVars,
      colorVars>>

\* the callback step of request id has run, and whether it changed the
\* handler or the update
Seen(step, id) == otaSeen' = [step |-> step, id |-> id, changed |-> ota' # ota]

\* the headers of a request are in; canHandle reads the length and the
\* parameters of a request that starts an update and of no other
OtaArrive(id, method, credentials, contentLength, md5, beginOk) ==
    /\ otaRequests[id].phase = "none"
    /\ \A other \in 1 .. id - 1 : otaRequests[other].phase # "none"
    /\ (credentials # "right" \/ ota.status = "Started") =>
           (contentLength = <<>> /\ md5 = "none" /\ beginOk)
    /\ md5 = "invalid" => beginOk
    /\ LET r == canHandle(ota, otaRequests[id], method, credentials, contentLength, md5,
                          beginOk)
       IN  /\ ota' = r.ota
           /\ otaRequests' = [otaRequests EXCEPT ![id] = r.request]
    /\ Seen("canHandle", id)
    /\ UNCHANGED restOfOta

\* a piece of the body of a POST is in
OtaUpload(id, final, writeOk) ==
    /\ otaRequests[id].phase = "attached"
    /\ otaRequests[id].method = "POST"
    /\ ota.written < MaxBytes
    /\ ota' = handleUpload(ota, otaRequests[id], 1, final, writeOk)
    /\ Seen("handleUpload", id)
    /\ UNCHANGED <<restOfOta, otaRequests>>

\* the request is complete
OtaHandle(id, endOk) ==
    /\ otaRequests[id].phase = "attached"
    /\ LET r == handleRequest(ota, otaRequests[id], endOk)
       IN  /\ ota' = r.ota
           /\ otaRequests' = [otaRequests EXCEPT ![id].phase = "answered",
                                                 ![id].response = r.response]
    /\ Seen("handleRequest", id)
    /\ UNCHANGED restOfOta

\* the connection of the request closes
OtaDisconnect(id) ==
    /\ otaRequests[id].phase \in {"attached", "answered"}
    /\ ota' = IF otaRequests[id].onDisconnect THEN onDisconnect(ota) ELSE ota
    /\ otaRequests' = [otaRequests EXCEPT
                           ![id] = [NoOtaRequest EXCEPT
                                        !.phase = "closed",
                                        !.authenticated = otaRequests[id].authenticated,
                                        !.doubleRequest = otaRequests[id].doubleRequest,
                                        !.arrivedIn = otaRequests[id].arrivedIn]]
    /\ Seen("onDisconnect", id)
    /\ UNCHANGED restOfOta

InitOta ==
    /\ lights = [c \in Colors |-> NewLight]
    /\ prefs = [c \in Colors |-> DefaultState]
    /\ started = TRUE
    /\ opCount = 0
    /\ lastOp = [op |-> "none", colors |-> {}, pre |-> [c \in Colors |-> DefaultState]]
    /\ config = "controller"
    /\ GateInit

NextOta ==
    \/ \E id \in 1 .. MaxRequests, method \in {"GET", "POST"},
          credentials \in {"wrong", "right"}, contentLength \in {<<>>, <<MaxBytes>>},
          md5 \in {"none", "invalid"}, beginOk \in BOOLEAN :
           OtaArrive(id, method, credentials, contentLength, md5, beginOk)
    \/ \E id \in 1 .. MaxRequests, final \in BOOLEAN, writeOk \in BOOLEAN :
           OtaUpload(id, final, writeOk)
    \/ \E id \in 1 .. MaxRequests, endOk \in BOOLEAN : OtaHandle(id, endOk)
    \/ \E id \in 1 .. MaxRequests : OtaDisconnect(id)

SpecOta == InitOta /\ [][NextOta]_vars

(***************************************************************************)
(* Claims about the throttle gates.  lastCheck holds the last shouldSend   *)
(* call of the running loop() iteration: the now it was given, millis() at *)
(* the call, and the gate as the call found it.                            *)
(***************************************************************************)
\* now - lastSendTime >= throttleInterval as shouldSend computes it
IntervalOver(check) ==
    ~ULongLess(ULongSub(check.now, check.lastSendTime), gates[check.gate].throttleInterval)

\* C1: shouldSend(now, v), called with the mutex free, returns true exactly
\* when now - lastSendTime >= throttleInterval in unsigned long and v differs
\* from lastValue; with interval 500 and a now not before the last
\* setLastSent it is false before 500 ms, true from 500 ms on for a changed
\* value, and false for an unchanged value at any elapsed time.
\* Checked under SpecBle, on colorNotificationThrottle{500}.
C1_ShouldSendContract ==
    /\ (lastCheck.gate = "ble" /\ ~lastCheck.locked) =>
           lastCheck.result = (lastCheck.changed /\ IntervalOver(lastCheck))
    /\ (lastCheck.gate = "ble" /\ ~lastCheck.locked
           /\ lastCheck.now >= lastCheck.lastSendTime) =>
           /\ lastCheck.result =
                  (lastCheck.changed /\ lastCheck.now - lastCheck.lastSendTime >= BleInterval)
           /\ lastCheck.now - lastCheck.lastSendTime < BleInterval => ~lastCheck.result
           /\ ~lastCheck.changed => ~lastCheck.result

\* a changed value is let through exactly 500 ms after a setLastSent
C1_Witness ==
    /\ lastCheck.gate = "ble"
    /\ ~lastCheck.locked
    /\ lastCheck.lastSendTime > 0
    /\ lastCheck.now - lastCheck.lastSendTime = BleInterval
    /\ lastCheck.changed
    /\ lastCheck.result

\* C2: whenever shouldSend permits a broadcast on a gate, at least the gate's
\* interval has elapsed between the gate's recorded last-sent time and the
\* call, also when the now of the tick is earlier than the recorded time.
\* Checked under SpecBle.
C2_PermittedOnlyAfterInterval ==
    (lastCheck.gate # "none" /\ lastCheck.result) =>
        lastCheck.clock - lastCheck.lastSendTime >= gates[lastCheck.gate].throttleInterval

\* C3: a delivery that fails after shouldSend returned true leaves the gate's
\* lastValue and lastSendTime as they were, and on the next tick shouldSend
\* is true again for the same, still changed value.  Checked under SpecBle.
C3_FailedDeliveryRetried ==
    /\ [][(lastCheck.sent = "none" /\ lastCheck'.sent = "failed") => gates' = gates]_vars
    /\ []((lastCheck.gate # "none" /\ lastCheck.retried /\ lastCheck.changed
               /\ ~lastCheck.locked) => lastCheck.result)

\* C4: a gate is written by setLastSent(t, v) only as v is delivered: after
\* every step that writes a gate every observer of its transport holds the
\* gate's lastValue.  Checked under SpecWs.
C4_StampedOnlyWhenDelivered ==
    [][/\ gates'["ws"] # gates["ws"] =>
              \A k \in connected' : view'[k] = <<gates'["ws"].lastValue>>
       /\ gates'["ble"] # gates["ble"] => bleView' = <<gates'["ble"].lastValue>>]_vars

\* client k stays connected, millis() is past the interval of the last write
\* of the gate
Settled(k) ==
    /\ k \in connected
    /\ clock = MaxTime
    /\ gates["ws"].lastSendTime < MaxTime

\* C5: a client that stays connected while loop() runs and binaryAll
\* succeeds holds, from some time on, the current output state as the last
\* one it got, whatever changed the state last.  Checked under FairWs.
C5_ClientsCatchUp ==
    \A k \in Clients :
        <>[]Settled(k) => <>[](view[k] = <<Manager_getState(lights)>>)

\* C6: a WS_EVT_CONNECT sends the connecting client one message of every
\* kind whose source is there and none of another kind, whatever the gates
\* hold, sends no other client a message of any kind, and leaves every
\* gate's lastValue and lastSendTime as they were.  Checked under
\* SpecSnapshot.
C6_ConnectSnapshot ==
    event.client # NoClient =>
        /\ \A kind \in Kinds, k \in Clients :
               event.sent[kind][k] =
                   IF kind \in Configured(config) /\ k = event.client THEN 1 ELSE 0
        /\ kindGates = event.before

\* a client connects next to another one while a gate would refuse: its value
\* is the last one sent, or its interval is not over
C6_Witness ==
    /\ event.client # NoClient
    /\ connected = Clients
    /\ \E kind \in Configured(config) :
           /\ kindGates[kind].lastSendTime > 0
           /\ kindGates[kind].lastValue = kindState[kind]
    /\ \E kind \in Configured(config) :
           /\ kindGates[kind].lastValue # kindState[kind]
           /\ clock - kindGates[kind].lastSendTime < WsInterval

\* C7: a shouldSend call made while another context holds the gate's mutex
\* returns false, the main loop goes on without a send and the call leaves
\* the gate as it was; the next call on the gate with the mutex free decides
\* by interval and value as ever.  Checked under SpecBle.
C7_ContentionSkips ==
    /\ [][(lastCheck'.gate # lastCheck.gate /\ lastCheck'.locked) => gates' = gates]_vars
    /\ [](lastCheck.gate # "none" =>
              /\ lastCheck.locked =>
                     /\ ~lastCheck.result
                     /\ lastCheck.sent = "none"
                     /\ mainPc \notin {"bleNotify", "wsSend"}
              /\ (lastCheck.afterSkip /\ ~lastCheck.locked) =>
                     lastCheck.result = (lastCheck.changed /\ IntervalOver(lastCheck)))

\* the call after a skipped one lets the changed value through
C7_Witness ==
    /\ lastCheck.gate = "ble"
    /\ lastCheck.afterSkip
    /\ ~lastCheck.locked
    /\ lastCheck.result

(***************************************************************************)
(* Claims about the output channels, checked under SpecLights.             *)
(***************************************************************************)
\* the duty of a channel as its state prescribes it: on ? value : 0,
\* 255 minus that for an inverted channel
PrescribedDuty(c) ==
    LET duty == IF lights[c].on THEN lights[c].value ELSE 0
    IN  IF Invert(c) THEN 255 - duty ELSE duty

\* C8: after every operation that mutates a channel, the duty last written
\* to the PWM channel equals on ? value : 0 (255 minus that when inverted).
C8_DutyFollowsState ==
    (started /\ opCount > 0) => \A c \in Colors : lights[c].ledc = <<PrescribedDuty(c)>>

\* C9: after setup a channel that is off has duty 0 as its last PWM write,
\* whatever its stored value, and switching off (setOn, turnOffAll) leaves
\* every stored value as it was.
C9_OffMeansDutyZero ==
    started =>
        /\ \A c \in Colors : (~Invert(c) /\ ~lights[c].on) => lights[c].ledc = <<0>>
        /\ lastOp.op \in {"setOn", "turnOffAll"} =>
               \A c \in Colors : lights[c].value = lastOp.pre[c].value

\* C9 witness: turnOffAll switched off a lit channel of value 128; the
\* channel is off, still stores 128 and its duty is 0.
C9_Witness ==
    /\ started
    /\ lastOp.op = "turnOffAll"
    /\ \E c \in Colors :
          /\ lastOp.pre[c] = LightState(TRUE, 128)
          /\ Light_getState(lights[c]) = LightState(FALSE, 128)
          /\ lights[c].ledc = <<0>>

\* C11: a decreaseBrightness call on a channel that is on with a value of at
\* least 1 leaves it on with a value of at least 1, so no number of calls
\* takes it below 1; on a channel at value 1, or off, the call changes
\* nothing.  Checked under SpecDim.
C11_DecreaseKeepsFloor ==
    lastOp.op = "decreaseBrightness" =>
        \A c \in Colors :
            LET pre == lastOp.pre[c]
                now == Light_getState(lights[c])
            IN  /\ (pre.on /\ pre.value >= 1) => (now.on /\ now.value >= 1)
                /\ (~pre.on \/ pre.value = 1) => now = pre

\* C11 witness: a decrease took an on channel from above 1 down to the
\* floor, next to a channel that is off and keeps its value.
C11_Witness ==
    /\ lastOp.op = "decreaseBrightness"
    /\ \E c \in Colors :
           /\ lastOp.pre[c].on
           /\ lastOp.pre[c].value > 1
           /\ Light_getState(lights[c]) = LightState(TRUE, 1)
    /\ \E c \in Colors :
           /\ lastOp.pre[c] = LightState(FALSE, 128)
           /\ Light_getState(lights[c]) = LightState(FALSE, 128)

\* the operations of Output::Manager that switch channels off, and on
OffOps == {"toggleAll", "toggle", "turnOffAll"}
OnOps == {"toggleAll", "toggle", "turnOnAll"}

\* the last operation switched channel c off
SwitchedOff(c) ==
    /\ lastOp.op \in OffOps
    /\ c \in lastOp.colors
    /\ lastOp.pre[c].on
    /\ Light_isOff(lights[c])

\* C12: when toggleAll, toggle or turnOffAll has switched a channel off and
\* the next operation, a toggleAll, toggle or turnOnAll, switches it on, the
\* channel's value is the one it stored before it was switched off, or 255
\* when that was 0.  Checked under SpecSwitch.
C12_OffOnRestores ==
    [][\A c \in Colors :
          (SwitchedOff(c) /\ lastOp'.op \in OnOps /\ Light_isOn(lights'[c])) =>
              lights'[c].value = IF lastOp.pre[c].value = OFF_VALUE
                                 THEN MAX_BRIGHTNESS
                                 ELSE lastOp.pre[c].value]_vars

\* C13: Light::handle writes a channel to storage only when its state
\* differs from the last persisted snapshot and at least 500 ms have passed
\* since the previous write of that channel; after the write the snapshot
\* and the stored copy are the channel's state; a state equal to the
\* snapshot is not written.  Checked under SpecPersist.
C13_WriteContract ==
    \A c \in Colors :
        LET h == handled[c]
        IN  /\ h.wrote =>
                   /\ h.state # h.snapshot
                   /\ h.writtenAt # Nullopt => h.now - h.writtenAt[1] >= PERSIST_DEBOUNCE_MS
                   /\ lastPersistedState[c] = Light_getState(lights[c])
                   /\ prefs[c] = Light_getState(lights[c])
            /\ h.state = h.snapshot => ~h.wrote

\* C13 witness: Light::handle writes a channel a second time, next to a
\* channel whose state is the snapshot of an earlier write and stays
\* unwritten.
C13_Witness ==
    /\ \E c \in Colors : handled[c].wrote /\ handled[c].writtenAt # Nullopt
    /\ \E c \in Colors :
           /\ ~handled[c].wrote
           /\ handled[c].writtenAt # Nullopt
           /\ handled[c].state = handled[c].snapshot

\* C14: a channel's state is written to storage only after it has remained
\* unchanged for at least 500 ms.  Checked under SpecPersist.
C14_WrittenOnlyWhenStable ==
    \A c \in Colors :
        (handled[c].wrote /\ changedAt[c] # Nullopt) =>
            handled[c].now - changedAt[c][1] >= PERSIST_DEBOUNCE_MS

\* the devices the mode and the names prescribe, each by type, name and
\* channels, in the order setupDevices adds them
Prescribed(s) ==
    LET single(c) == IF s.deviceNames[c] = NoName
                     THEN <<>>
                     ELSE <<[type |-> "Dimmable light", name |-> s.deviceNames[c],
                             channels |-> {c}]>>
    IN  CASE s.integrationMode = "OFF" -> <<>>
          [] s.integrationMode = "RGBW_DEVICE" ->
                 <<[type |-> "Extended color light", name |-> s.deviceNames[Red],
                    channels |-> Colors]>>
          [] s.integrationMode = "RGB_DEVICE" ->
                 (IF s.deviceNames[Red] = NoName
                  THEN <<>>
                  ELSE <<[type |-> "Color light", name |-> s.deviceNames[Red],
                          channels |-> {Red, Green, Blue}]>>) \o single(White)
          [] s.integrationMode = "MULTI_DEVICE" ->
                 single(Red) \o single(Green) \o single(Blue) \o single(White)

\* the devices of the registry, each by type, name and channels
Registered ==
    [i \in DOMAIN registry |->
        [type |-> heap[registry[i]].type, name |-> heap[registry[i]].name,
         channels |-> heap[registry[i]].channels]]

\* C15: after any sequence of begin() and applySettings() calls the registry
\* holds the devices the current mode and names prescribe, each of them once
\* and alive, and no other device.  Checked under SpecAlexa.
C15_RegistryAsPrescribed ==
    /\ \A i \in DOMAIN registry : heap[registry[i]].live
    /\ \A d \in {Registered[i] : i \in DOMAIN Registered}
                \cup {Prescribed(settings)[i] : i \in DOMAIN Prescribed(settings)} :
           Cardinality({i \in DOMAIN Registered : Registered[i] = d})
               = Cardinality({i \in DOMAIN Prescribed(settings) : Prescribed(settings)[i] = d})

\* C16: while applySettings stores the settings, deletes the devices and makes
\* them again, neither updateDevices in loop() nor the HTTP handler calls a
\* device that was deleted, nor reads a pointer of the union under a mode
\* other than the one it was made for.  Checked under SpecRace.
C16_RegistryUseIsSafe == fault = "none"

\* C17: a key made with this device's hardware id for an index in 0..127
\* decodes to that index; a key made with another hardware id decodes to 255,
\* which is not below the number of registered devices, and a request with
\* such a key is answered 404 'Device not found'.  Checked under SpecKey.
C17_KeyCodec ==
    /\ \A idx \in Indexes : decodeLightKey(mac24, encodeLightKey(mac24, idx)) = idx
    /\ \A from \in HardwareIds \ {mac24}, idx \in Indexes :
           decodeLightKey(mac24, encodeLightKey(from, idx)) = 255
    /\ (request.kind # "none" /\ request.from # mac24) =>
           /\ request.idx = 255
           /\ ~(255 < Len(registry))
           /\ request.status = 404
           /\ request.error = "Device not found"

\* the last request was a state update that reached a device
StateUpdated == request.kind = "put" /\ request.status = 200

\* C18: handleStateUpdate changes the attributes whose fields the payload
\* carries and no other, but for the brightness, which becomes 254 when the
\* payload turns the device on and carries no 'bri': without 'on' the on flag
\* stays; without 'bri', and without an 'on' of true, the brightness stays;
\* without 'ct' the colour temperature stays; hue and saturation stay unless
\* both 'hue' and 'sat' are there.  Checked under SpecAlexa.
C18_OnlyPresentFields ==
    StateUpdated =>
        LET before == request.heap[request.device]
            after == heap[request.device]
            p == request.payload
        IN  /\ after.on = IF p.on # Nullopt THEN p.on[1] ELSE before.on
            /\ after.bri = IF p.bri # Nullopt THEN p.bri[1]
                           ELSE IF p.on = <<TRUE>> THEN 254 ELSE before.bri
            /\ p.ct = Nullopt => after.ct = before.ct
            /\ (p.hue = Nullopt \/ p.sat = Nullopt) =>
                   after.hue = before.hue /\ after.sat = before.sat

C20_WrongLengthIgnored ==
    (lastWrite.target # "none" /\ lastWrite.length # lastWrite.size) =>
        Snapshot = lastWrite.before

\* the registry h, r holds the color device 'Kitchen' on red, green and blue
\* at index 0, the dimmable device 'Lamp' on white at index 1, and no other
KitchenAndLamp(h, r) ==
    /\ Len(r) = 2
    /\ h[r[1]].live /\ h[r[1]].type = "Color light" /\ h[r[1]].name = "Kitchen"
    /\ h[r[1]].channels = {Red, Green, Blue}
    /\ h[r[2]].live /\ h[r[2]].type = "Dimmable light" /\ h[r[2]].name = "Lamp"
    /\ h[r[2]].channels = {White}

\* C21: with the mode ColorPlusWhite and the names 'Kitchen', '', '', 'Lamp'
\* the registry holds exactly the color device 'Kitchen' (index 0, on red,
\* green and blue) and the dimmable device 'Lamp' (index 1, on white); the
\* poll that finds OutputState at red 255, green 0, blue 0, white 128, every
\* channel on, leaves 'Kitchen' on with hue 0, saturation 254, brightness 254
\* and 'Lamp' on with brightness 128.  Checked under SpecPoll.
C21_KitchenLampDevices ==
    /\ settings = KitchenLamp => KitchenAndLamp(heap, registry)
    /\ (polled.found /\ polled.settings = KitchenLamp /\ polled.out = RedAndWhite) =>
           /\ KitchenAndLamp(polled.heap, polled.registry)
           /\ LET kitchen == polled.heap[polled.registry[1]]
                  lamp == polled.heap[polled.registry[2]]
              IN  /\ kitchen.on /\ kitchen.hue = 0 /\ kitchen.sat = 254 /\ kitchen.bri = 254
                  /\ lamp.on /\ lamp.bri = 128

\* the command that asks for green: on, hue 21845, saturation 254, no bri
GreenCommand == [NoPayload EXCEPT !.on = <<TRUE>>, !.hue = <<21845>>, !.sat = <<254>>]

\* a and b differ by a rounding step at most
Near(a, b) == a - b \in {-1, 0, 1}

\* the last request was GreenCommand, served, in the mode ExtendedColor
GreenServed ==
    /\ request.kind = "put"
    /\ request.status = 200
    /\ request.payload = GreenCommand
    /\ settings.integrationMode = "RGBW_DEVICE"

\* C22: in the mode ExtendedColor a state command with on true, hue 21845
\* and saturation 254 and no brightness leaves the device at brightness 254
\* and OutputState at red 0, green 255, blue 0, white 0, each within a
\* rounding step, with all four channels on.  Checked under SpecPoll.
C22_GreenCommand ==
    GreenServed =>
        /\ heap[request.device].type = "Extended color light"
        /\ heap[request.device].bri = 254
        /\ Near(lights[Red].value, 0)
        /\ Near(lights[Green].value, 255)
        /\ Near(lights[Blue].value, 0)
        /\ Near(lights[White].value, 0)
        /\ \A c \in Colors : Light_isOn(lights[c])

\* the command arrives while red is at 255 and white at 128
C22_Witness ==
    /\ GreenServed
    /\ request.lights = RedAndWhite

\* the device d shows what OutputState out holds for its channels: on,
\* brightness, and hue and saturation for a device with colors
Reflects(d, out) ==
    CASE d.type = "Dimmable light" ->
             LET c == CHOOSE c \in d.channels : TRUE
             IN  /\ d.on = out[c].on
                 /\ d.bri = Max(ALEXA_MIN_BRI_VAL, Min(ALEXA_MAX_BRI_VAL, out[c].value))
      [] d.type = "Color light" ->
             /\ d.on = (out[Red].on \/ out[Green].on \/ out[Blue].on)
             /\ <<d.hue, d.sat, d.bri>> = rgbToHsv(out[Red].value, out[Green].value,
                                                   out[Blue].value)
      [] d.type = "Extended color light" ->
             /\ d.on = (\E c \in Colors : out[c].on)
             /\ <<d.hue, d.sat, d.bri>> = rgbwToHsv(out[Red].value, out[Green].value,
                                                    out[Blue].value, out[White].value)

\* two compares are an interval apart at least
C23_Spaced == polled.compared => polled.now - polled.previous >= OUTPUT_STATE_UPDATE_INTERVAL_MS

\* the compare that finds a difference stores OutputState and leaves every
\* device of the registry showing it
C23_Recomputed ==
    polled.found =>
        /\ polled.out = polled.state
        /\ \A i \in 1 .. Len(polled.registry) :
               Reflects(polled.heap[polled.registry[i]], polled.state)

\* OutputState unchanged for an interval and a tick is what the snapshot holds
C23_Settled ==
    clock - outputChangedAt >= OUTPUT_STATE_UPDATE_INTERVAL_MS + TimeStep =>
        alexaOutputState = Manager_getState(lights)

\* C23: AlexaIntegration::handle compares OutputState with its snapshot once
\* per 500 ms at most; a compare that finds a difference stores the new
\* snapshot and recomputes on, brightness, hue and saturation of every live
\* device from it; OutputState that has stopped changing is in the snapshot
\* within 500 ms and a tick.  Checked under SpecPoll.
C23_PollKeepsDevices ==
    /\ C23_Spaced
    /\ C23_Recomputed
    /\ C23_Settled

\* C24: the brightness of every device of the registry is within the scale
\* of the protocol, 0..254, in every state: as the device is created from
\* the value of its channel, after a poll and after a command.  Checked
\* under SpecPoll.
C24_BrightnessInScale ==
    \A i \in 1 .. Len(registry) : heap[registry[i]].bri \in 0 .. ALEXA_MAX_BRI_VAL

\* C25: a command to a device changes the channels bound to it and no
\* other: the color device of ColorPlusWhite leaves the white channel's on
\* flag and value alone, a dimmable device changes its own channel only, and
\* every channel a device owns ends with the on flag the device has after
\* the command.  Checked under SpecPoll.
C25_CommandFrame ==
    (request.kind = "put" /\ request.status = 200) =>
        LET d == heap[request.device]
        IN  /\ \A c \in Colors \ d.channels : Light_getState(lights[c]) = request.lights[c]
            /\ \A c \in d.channels : lights[c].on = d.on

\* the color device 'Kitchen' is switched off while white is on at 128
C25_Witness ==
    /\ request.kind = "put"
    /\ request.status = 200
    /\ request.payload = [NoPayload EXCEPT !.on = <<FALSE>>]
    /\ heap[request.device].type = "Color light"
    /\ request.lights = RedAndWhite
    /\ lights[White].on /\ ~lights[Red].on

\* C26: one network scan at most is queued or running: triggerScan returns
\* false at once and queues nothing whenever a request is in the queue or a
\* scan is running.  Checked under SpecScan.
C26_OneScanAtMost ==
    /\ Len(wifiScanQueue) + (IF scanPc = "scanning" THEN 1 ELSE 0) <= 1
    /\ (triggered.called /\ (triggered.queued > 0 \/ triggered.running)) =>
           /\ ~triggered.result
           /\ triggered.after = triggered.queued

\* the mutex of each guarded field
MutexOf(field) ==
    CASE field = "deviceName" -> "deviceNameMutex"
      [] field = "factor" -> "sensorMutex"
      [] OTHER -> "espNowMutex"

\* C27: every read and write of the device name, of the calibration factor
\* and of the directory of paired devices is made by a context that holds
\* the mutex of that field.  Checked under SpecLock.
C27_AccessUnderMutex ==
    accessed.field \in {"deviceName", "factor", "deviceData"} =>
        MutexOf(accessed.field) \in accessed.held

\* the OutputState in which the first k lights hold what post holds and
\* the others what pre holds
Prefix(pre, post, k) ==
    [c \in Colors |-> IF \E i \in 1 .. k : ColorOrder[i] = c THEN post[c] ELSE pre[c]]

\* a getState that ran while no operation did returns the state the last
\* operation yields
C28_AfterCompletion ==
    (observed.returned /\ observed.ops = {} /\ observed.begun > 0) =>
        observed.state = observed.post

\* a getState that ran while one operation did returns a prefix of that
\* operation's result
C28_PrefixDuring ==
    (observed.returned /\ Cardinality(observed.ops) = 1) =>
        \E k \in 0 .. 4 : observed.state = Prefix(observed.pre, observed.post, k)

\* C28: a composite operation updates the lights one by one in the order
\* Red, Green, Blue, White: with one writer, a getState running at the same
\* time returns a state where the first lights hold the new state and the
\* others the old one, and a getState after the operation returns the new
\* state.  Checked under SpecStep.
C28_PrefixOnly == C28_AfterCompletion /\ C28_PrefixDuring

\* C29: an ESP-NOW packet changes OutputState only if its source address
\* is that of one of the first deviceCount entries of the directory and its
\* length is that of one Message.  Checked under SpecEspNow.
C29_PacketGate ==
    (packet.count > 0 /\ Manager_getState(lights) # packet.before) =>
        /\ \E i \in 1 .. Len(packet.directory) : packet.directory[i].address = packet.mac
        /\ packet.length = sizeof_Message

\* a packet of a paired remote has changed OutputState
C29_Witness ==
    /\ packet.count > 0
    /\ Manager_getState(lights) # packet.before
    /\ Len(packet.directory) > 0

\* C30: for every hue, saturation and value, hsvToRgbw returns
\* (r - w, g - w, b - w, w) with (r, g, b) what hsvToRgb returns and w the
\* smallest of r, g, b: one of the three colors is 0, every result is a
\* byte reached without wrapping, and each color plus w is hsvToRgb's.
\* Checked under SpecColor.
C30_WhiteExtracted ==
    rgbwResult # <<>> =>
        LET rgb == hsvToRgb(hsvArgs[1], hsvArgs[2], hsvArgs[3])
            w == rgbwResult[4]
        IN  /\ \A i \in 1 .. 3 : w <= rgb[i]
            /\ \E i \in 1 .. 3 : w = rgb[i]
            /\ \A i \in 1 .. 3 : rgbwResult[i] = rgb[i] - w
            /\ \E i \in 1 .. 3 : rgbwResult[i] = 0
            /\ \A i \in 1 .. 4 : rgbwResult[i] \in 0 .. 255
            /\ \A i \in 1 .. 3 : rgbwResult[i] + w = rgb[i]

\* a call that had white to extract, and a color left
C30_Witness ==
    /\ rgbwResult # <<>>
    /\ rgbwResult[4] > 0
    /\ \E i \in 1 .. 3 : rgbwResult[i] > 0

\* the distance of two numbers
Apart(a, b) == IF a >= b THEN a - b ELSE b - a

\* C31: for hue in 0..65535, saturation in 0..254 and value in 1..254,
\* rgbToHsv of hsvToRgbw's colors with the white added back (cut at 255)
\* is the hue, saturation and value given, each within 2.  Checked under
\* SpecTrip.
C31_RoundTrip ==
    hsvBack # <<>> =>
        \A i \in 1 .. 3 : Apart(hsvBack[i], hsvArgs[i]) <= 2

\* C10: a toggle that switches a channel on while its value is 0 ends with
\* on = true and value = 255 (Light::toggle from off, Manager::toggle on a
\* channel that is not visible); a toggle of a channel whose value is not 0
\* leaves the value as it was.
C10_ToggleOnFromZero ==
    \A c \in lastOp.colors :
        LET pre == lastOp.pre[c]
            now == Light_getState(lights[c])
        IN  /\ (lastOp.op = "toggle" /\ ~(pre.on /\ pre.value > 0) /\ pre.value = 0)
                   => now = LightState(TRUE, 255)
            /\ (lastOp.op = "Light::toggle" /\ ~pre.on /\ pre.value = 0)
                   => now = LightState(TRUE, 255)
            /\ (lastOp.op \in {"toggle", "Light::toggle"} /\ pre.value # 0)
                   => now.value = pre.value

\* C10 witness: Manager::toggle found a channel off at value 0 and left it
\* on at 255.
C10_Witness ==
    /\ lastOp.op = "toggle"
    /\ \E c \in lastOp.colors :
          /\ lastOp.pre[c] = LightState(FALSE, 0)
          /\ Light_getState(lights[c]) = LightState(TRUE, 255)

\* the calls of Light::increaseBrightness that take a value to the maximum
RECURSIVE CallsToMax(_)
CallsToMax(value) ==
    IF value = MAX_BRIGHTNESS
    THEN 0
    ELSE 1 + CallsToMax(perceptualBrightnessStep(value, TRUE))

\* C32: Light::increaseBrightness, as Output::Manager calls it on every
\* channel while a channel is on, leaves a channel alone exactly when its
\* value is 255; any other value becomes a larger one in 1..255, so that at
\* most 255 calls reach 255; the on flag of the channel stays as it was.
C32_IncreaseClimbs ==
    (lastOp.op = "increaseBrightness" /\ \E c \in Colors : lastOp.pre[c].on) =>
        \A c \in Colors :
            LET pre == lastOp.pre[c]
                now == Light_getState(lights[c])
            IN  /\ now.on = pre.on
                /\ (now = pre) <=> (pre.value = MAX_BRIGHTNESS)
                /\ pre.value < MAX_BRIGHTNESS =>
                       /\ now.value > pre.value
                       /\ now.value \in 1 .. MAX_BRIGHTNESS
                /\ CallsToMax(pre.value) <= MAX_BRIGHTNESS

\* C32 witness: one increase took an off channel from 128 upwards and left
\* it off, next to an on channel that stays at 255.
C32_Witness ==
    /\ lastOp.op = "increaseBrightness"
    /\ \E c \in Colors :
           /\ lastOp.pre[c] = LightState(FALSE, 128)
           /\ ~Light_getState(lights[c]).on
           /\ Light_getState(lights[c]).value > 128
    /\ \E c \in Colors :
           /\ lastOp.pre[c] = LightState(TRUE, MAX_BRIGHTNESS)
           /\ Light_getState(lights[c]) = LightState(TRUE, MAX_BRIGHTNESS)

\* C34: Output::Manager::decreaseBrightness raises the value of no channel:
\* every channel holds at most the value it held before the call.
C34_DecreaseNeverRaises ==
    lastOp.op = "decreaseBrightness" =>
        \A c \in Colors :
            Light_getState(lights[c]).value <= lastOp.pre[c].value

(***************************************************************************)
(* A command to a dimmable device of one channel: every colour, on flag    *)
(* and brightness the callback can be called with, on the lights as        *)
(* setup() leaves them.                                                    *)
(***************************************************************************)
\* the callback of a dimmable device runs handleSingleChannelCommand
SingleChannelCommand ==
    /\ started
    /\ lastOp.op = "command"
    /\ lights' = handleSingleChannelCommand(lights, CHOOSE c \in lastOp.colors : TRUE,
                                            lastOp.isOn, lastOp.brightness)
    /\ lastOp' = [lastOp EXCEPT !.op = "handleSingleChannelCommand"]
    /\ UNCHANGED <<prefs, started, opCount, gateVars>>

\* the arguments of the callback: uint8_t brightness
InitCommand ==
    /\ prefs = [c \in Colors |-> DefaultState]
    /\ lights = Manager_begin([c \in Colors |-> NewLight], prefs)
    /\ started = TRUE
    /\ opCount = 0
    /\ \E color \in Colors, isOn \in BOOLEAN, brightness \in Bytes :
           lastOp = [op |-> "command", colors |-> {color},
                     pre |-> [c \in Colors |-> DefaultState],
                     isOn |-> isOn, brightness |-> brightness]
    /\ config = "controller"
    /\ GateInit

NextCommand == SingleChannelCommand

SpecCommand == InitCommand /\ [][NextCommand]_vars

\* C35: handleSingleChannelCommand writes to its channel the value
\* brightness for a brightness below 128 and brightness + 1 for any other,
\* as a number of 8 bits that is not below the brightness it was called
\* with.
C35_NoOverflow ==
    lastOp.op = "handleSingleChannelCommand" =>
        LET b == lastOp.brightness
            written == lights[CHOOSE c \in lastOp.colors : TRUE].value
        IN  /\ written = (IF b < 128 THEN b ELSE b + 1)
            /\ written >= b

(***************************************************************************)
(* The extended color device of the mode ExtendedColor: commands with a    *)
(* color temperature, with hue and saturation, with both and with neither, *)
(* and loop() polling OutputState in between.                              *)
(***************************************************************************)
\* bodies of Alexa's commands to the extended color device
ModePayloads ==
    {[NoPayload EXCEPT !.on = <<TRUE>>, !.ct = <<500>>],
     [NoPayload EXCEPT !.on = <<TRUE>>, !.hue = <<21845>>, !.sat = <<254>>],
     [NoPayload EXCEPT !.on = <<TRUE>>, !.ct = <<500>>, !.hue = <<21845>>, !.sat = <<254>>],
     [NoPayload EXCEPT !.ct = <<500>>, !.hue = <<21845>>],
     [NoPayload EXCEPT !.bri = <<127>>]}

\* after setup(): the lights restored off, the mode ExtendedColor stored by
\* an earlier run, the station not connected yet
InitMode ==
    /\ prefs = [c \in Colors |-> DefaultState]
    /\ lights = Manager_begin([c \in Colors |-> NewLight], prefs)
    /\ started = TRUE
    /\ opCount = 0
    /\ lastOp = [op |-> "none", colors |-> {}, pre |-> [c \in Colors |-> DefaultState]]
    /\ config = "controller"
    /\ KindInit
    /\ PersistInit
    /\ NotifyInit
    /\ AlexaConstructed
    /\ alexaPrefs = ExtendedLamp
    /\ mac24 = 11259375

NextMode ==
    \/ PollLoop
    \/ PollBegin
    \/ \E payload \in ModePayloads : PollPut(0, payload)

SpecMode == InitMode /\ [][NextMode]_vars

\* the last request was a command the extended color device served
ModeServed ==
    /\ request.kind = "put"
    /\ request.status = 200
    /\ heap[request.device].type = "Extended color light"

\* C33: a command to the extended color device runs one conversion callback,
\* the one of the color mode the device is in once the body is applied: hue
\* and saturation together select hs, whatever else the body holds, and the
\* channels become hsvToRgbw of the device; a color temperature without
\* both of them selects ct and the channels become ctToRgbw of the device;
\* any other body leaves the mode as it was.
C33_OneConversion ==
    ModeServed =>
        LET d == heap[request.device]
            before == request.heap[request.device]
            body == request.payload
            values == <<lights[Red].value, lights[Green].value, lights[Blue].value,
                        lights[White].value>>
        IN  /\ d.colormode =
                   IF body.hue # Nullopt /\ body.sat # Nullopt THEN "hs"
                   ELSE IF body.ct # Nullopt THEN "ct"
                   ELSE before.colormode
            /\ d.colormode = "ct" =>
                   /\ request.callbacks = <<"colorTemperature">>
                   /\ values = ctToRgbw(d.bri, d.ct)
            /\ d.colormode = "hs" =>
                   /\ request.callbacks = <<"color">>
                   /\ values = hsvToRgbw(d.hue, d.sat, d.bri)
            /\ d.colormode \in {"ct", "hs"}

\* C33 witness: a body with a color temperature, hue and saturation reaches
\* the device while it is in the mode ct, and leaves it in hs.
C33_Witness ==
    /\ ModeServed
    /\ request.payload.ct # Nullopt
    /\ request.payload.hue # Nullopt
    /\ request.payload.sat # Nullopt
    /\ request.heap[request.device].colormode = "ct"
    /\ heap[request.device].colormode = "hs"

\* C36: an iteration of loop() leaves the extended color device in the color
\* mode ct when it finds it there: the poll of OutputState that follows a
\* command with a color temperature does not turn the device to hs, and the
\* color temperature of the command stays.
C36_PollKeepsCt ==
    [][(/\ clock' # clock
        /\ slots[1] # NullPtr
        /\ heap[slots[1]].type = "Extended color light"
        /\ heap[slots[1]].colormode = "ct")
       => (/\ heap'[slots[1]].colormode = "ct"
           /\ heap'[slots[1]].ct = heap[slots[1]].ct)]_vars

\* the last callback ran for a request that came with the right credentials
\* while the status was Started
SecondRequest ==
    /\ otaSeen.id # 0
    /\ otaRequests[otaSeen.id].authenticated
    /\ otaRequests[otaSeen.id].arrivedIn = "Started"

\* the callback left the status, the byte counters, the data written and
\* everything else of the update as it found them
UpdateUntouched == ~otaSeen.changed

\* an authenticated request to /update that arrives while the status is
\* Started is marked a double request, changes nothing of the running update
\* in any of its callbacks and is answered 'OTA update already in progress'
C37_AnsweredInProgress ==
    SecondRequest =>
        /\ otaRequests[otaSeen.id].doubleRequest
        /\ UpdateUntouched
        /\ otaSeen.step = "handleRequest" =>
               otaRequests[otaSeen.id].response = <<400, MSG_ALREADY_IN_PROGRESS>>

\* C37: an authenticated request to /update that arrives while the status
\* is Started is marked a double request and changes nothing of the running
\* update in any of its callbacks: not the status, not the byte counters,
\* not the data written.  A POST is answered 400 'OTA update already in
\* progress', a GET with the redirect to /ota.html every GET gets.
C37_SecondRequestRefused ==
    SecondRequest =>
        /\ otaRequests[otaSeen.id].doubleRequest
        /\ UpdateUntouched
        /\ otaSeen.step = "handleRequest" =>
               otaRequests[otaSeen.id].response =
                   IF otaRequests[otaSeen.id].method = "POST"
                   THEN <<400, MSG_ALREADY_IN_PROGRESS>>
                   ELSE <<302, "/ota.html">>

\* C37 witness: a second POST is answered while the update of the first is
\* running with a byte written.
C37_Witness ==
    /\ SecondRequest
    /\ otaSeen.step = "handleRequest"
    /\ otaRequests[otaSeen.id].method = "POST"
    /\ otaRequests[otaSeen.id].response = <<400, MSG_ALREADY_IN_PROGRESS>>
    /\ ota.status = "Started"
    /\ ota.running
    /\ ota.written > 0

\* C38: a client that has seen the scan status COMPLETED and reads the scan
\* result next, with no other scan begun in between, reads the result of
\* the scan that completed.
C38_ResultWithStatus ==
    (watcher.pc = "read" /\ ~watcher.overtaken) => watcher.read = watcher.expected

(***************************************************************************)
(* GET /output/brightness, with the lights as setup() restored them.        *)
(***************************************************************************)
\* HTTP::AsyncWebHandlerCreator::extractUint8Param: param is Nullopt when
\* the request has no such parameter, else what toInt() makes of it
extractUint8Param(param) ==
    IF param = Nullopt THEN Nullopt ELSE <<Max(0, Min(255, param[1]))>>

\* Output::State{on, value}: the two initializers fill values[0], the other
\* three elements are Light::State{}
OutputStateOf(on, value) ==
    [c \in Colors |-> IF c = Red THEN LightState(on, value) ELSE DefaultState]

\* AsyncRestWebHandler::handleBrightnessRequest: the lights after it
handleBrightnessRequest(ls, param) ==
    IF param = Nullopt
    THEN ls
    ELSE LET value == extractUint8Param(param)
         IN  IF value # Nullopt
             THEN Manager_setState(ls, OutputStateOf(TRUE, value[1]))
             ELSE Manager_turnOffAll(ls)

\* a GET /output/brightness with the parameter value, or without
BrightnessRequest(param) ==
    /\ started
    /\ lights' = handleBrightnessRequest(lights, param)
    /\ lastOp' = [op |-> "handleBrightnessRequest", colors |-> Colors,
                  pre |-> [c \in Colors |-> DefaultState], param |-> param]
    /\ UNCHANGED <<prefs, started, opCount, gateVars>>

\* what the parameter value holds as a number
BrightnessParams == {Nullopt} \cup {<<n>> : n \in -1 .. 256}

NextBrightness == \E param \in BrightnessParams : BrightnessRequest(param)

SpecBrightness == InitEspNow /\ [][NextBrightness]_vars

\* C39: after GET /output/brightness with value = v, for v in 0..255, each
\* of the four channels is on with the value v.
C39_AllChannels ==
    (/\ lastOp.op = "handleBrightnessRequest"
     /\ lastOp.param # Nullopt
     /\ lastOp.param[1] \in 0 .. 255) =>
        \A c \in Colors : Light_getState(lights[c]) = LightState(TRUE, lastOp.param[1])

\* C40: once the state of a channel changes no more, with loop() calling
\* handle and millis() advancing, the snapshot of the channel and its stored
\* copy become the state of the channel and stay so.  Checked under
\* SpecSettle.
C40_EventuallyPersisted ==
    \A c \in Colors :
        <>[][Light_getState(lights[c])' = Light_getState(lights[c])]_vars
            => <>[](/\ lastPersistedState[c] = Light_getState(lights[c])
                    /\ prefs[c] = Light_getState(lights[c]))

\* C40 witness: a change that came less than 500 ms after a write of the
\* channel is written by a later handle.
C40_Witness ==
    \E c \in Colors :
        /\ handled[c].wrote
        /\ handled[c].writtenAt # Nullopt
        /\ changedAt[c] # Nullopt
        /\ changedAt[c][1] >= handled[c].writtenAt[1]
        /\ changedAt[c][1] - handled[c].writtenAt[1] < PERSIST_DEBOUNCE_MS
        /\ lastPersistedState[c] = Light_getState(lights[c])

====
